---- MODULE Spec2Model ----
(***************************************************************************)
(* Current-identity cache and persistence coordinator of ParseUser.js:     *)
(* the in-memory current-user cache, the currentUserCacheMatchesDisk flag, *)
(* the persisted 'currentUser' entry of Storage, the store requests and    *)
(* REST requests in flight, and the operations of ParseUser and            *)
(* DefaultController that read and write them.                             *)
(***************************************************************************)
EXTENDS Integers, Naturals, Sequences, FiniteSets, TLC

(***************************************************************************)
(* Bounds                                                                  *)
(***************************************************************************)
\* most requests of an asynchronous Storage in flight at once
MaxPending == 2
\* most logOut calls in flight at once (each may own one REST request)
MaxLogOuts == 1

(***************************************************************************)
(* Values                                                                  *)
(***************************************************************************)
\* JavaScript undefined: a property that is not there
Undefined == "<undefined>"
\* JavaScript null: no current user, no stored item
Null == [kind |-> "null"]
\* a promise that has not settled yet
Pending == [kind |-> "pending"]
\* a promise resolved without a value of interest
Resolved == [kind |-> "resolved"]
\* a thrown error or a rejected promise
Failure(e) == [kind |-> "error", error |-> e]

\* JavaScript truthiness of a property value that is a string or undefined
Truthy(v) == v # Undefined /\ v # ""

\* isRevocableSession(token): token.indexOf('r:') > -1
RevocableTokens == {"r:tok"}
isRevocableSession(token) == token \in RevocableTokens

\* a ParseUser object: the object reference, its class, its id and its
\* attribute map (a key that is Undefined is not there)
User(ref, id, sessionToken, username) ==
    [kind |-> "user", ref |-> ref, className |-> "_User", id |-> id,
     attributes |-> [sessionToken |-> sessionToken, username |-> username,
                     _id |-> Undefined, _sessionToken |-> Undefined]]

\* the user objects callers have made, as they are made
CallerUsers ==
    { User("u1", "id1", "r:tok", "alice"),
      User("u2", "id2", "tok", Undefined),
      User("u3", Undefined, Undefined, "alice") }

\* user objects a caller has made with an attribute under a legacy key
\* (new ParseUser({ _sessionToken: 'tok' }), user.set('_id', 'id2'))
LegacyKeyUsers ==
    { [User("u4", "id1", Undefined, "alice")
          EXCEPT !.attributes._sessionToken = "tok"],
      [User("u5", "id1", "r:tok", "alice")
          EXCEPT !.attributes._id = "id2"] }

\* the objects callers hold when they have made those of `objects`
HeapOf(objects) ==
    [r \in { user.ref : user \in objects } |->
        CHOOSE user \in objects : user.ref = r]

\* user.getSessionToken(): this.get('sessionToken')
getSessionToken(user) == user.attributes.sessionToken

(***************************************************************************)
(* JSON                                                                    *)
(***************************************************************************)
\* a JSON object over the keys a user snapshot can carry
Json(className, objectId, legacyId, sessionToken, legacyToken, username) ==
    [className |-> className, objectId |-> objectId, _id |-> legacyId,
     sessionToken |-> sessionToken, _sessionToken |-> legacyToken,
     username |-> username]

\* JSON.stringify(json): keys whose value is undefined are left out, which
\* is what Undefined stands for
stringify(json) == [kind |-> "string", isJson |-> TRUE, text |-> json]
\* a stored string that is not JSON: JSON.parse throws a SyntaxError on it
Malformed ==
    [kind |-> "string", isJson |-> FALSE,
     text |-> Json(Undefined, Undefined, Undefined, Undefined, Undefined,
                   Undefined)]
\* JSON.parse(str) returns the object for the strings stringify produces
CanParse(str) == str.kind = "string" /\ str.isJson
parse(str) == str.text

\* ParseObject.toJSON(): the attributes, and objectId when the id is set
toJSON(user) ==
    [className |-> Undefined,
     objectId |-> IF Truthy(user.id) THEN user.id ELSE Undefined,
     _id |-> user.attributes._id,
     sessionToken |-> user.attributes.sessionToken,
     _sessionToken |-> user.attributes._sessionToken,
     username |-> user.attributes.username]

\* ParseObject.fromJSON(json): a new object of class json.className whose id
\* is json.objectId and whose attributes are the other keys; the step that
\* builds the object gives it its reference (NewUser)
fromJSON(json) ==
    [kind |-> "user", ref |-> "loaded", className |-> json.className,
     id |-> IF Truthy(json.objectId) THEN json.objectId ELSE Undefined,
     attributes |-> [sessionToken |-> json.sessionToken,
                     username |-> json.username,
                     _id |-> json._id,
                     _sessionToken |-> json._sessionToken]]

\* an updateUserOnDisk that does not tag the snapshot with its type
TagUser_Untagged(json) == json

\* json.className = '_User' in updateUserOnDisk
TagUser(json) == [json EXCEPT !.className = "_User"]

\* the string updateUserOnDisk hands to Storage.setItemAsync
UserOnDisk(user) == stringify(TagUser(toJSON(user)))

\* if (!userData.className) userData.className = '_User'
DefaultClassName(userData) ==
    IF ~Truthy(userData.className)
    THEN [userData EXCEPT !.className = "_User"]
    ELSE userData

\* a translation of _id that fills objectId only when the snapshot has none
TranslateId_KeepsObjectId(userData) ==
    IF Truthy(userData._id)
    THEN [userData EXCEPT
            !.objectId = IF userData.objectId = Undefined
                         THEN userData._id ELSE userData.objectId,
            !._id = Undefined]
    ELSE userData

\* if (userData._id) { objectId = _id when they differ; delete _id }
TranslateId(userData) ==
    IF Truthy(userData._id)
    THEN [userData EXCEPT
            !.objectId = IF userData.objectId # userData._id
                         THEN userData._id ELSE userData.objectId,
            !._id = Undefined]
    ELSE userData

\* if (userData._sessionToken) { sessionToken = _sessionToken; delete it }
TranslateSessionToken(userData) ==
    IF Truthy(userData._sessionToken)
    THEN [userData EXCEPT !.sessionToken = userData._sessionToken,
                          !._sessionToken = Undefined]
    ELSE userData

\* the normalisation of a parsed snapshot in currentUser/currentUserAsync
Translate(userData) ==
    TranslateSessionToken(TranslateId(DefaultClassName(userData)))

\* the fields of the user a read builds from a stored string that parses
LoadUser(str) == fromJSON(Translate(parse(str)))

(***************************************************************************)
(* State                                                                   *)
(***************************************************************************)
VARIABLES
    canUseCurrentUser,            \* ParseUser.js:30
    currentUserCache,             \* _currentUserCache, Null or a user
    currentUserCacheMatchesDisk,  \* ParseUser.js:31
    storageAsync,                 \* Storage.async(): the store is async-only
    disk,                         \* the item at CURRENT_USER_KEY, or Null
    storeQ,                       \* requests of an async Storage in flight
    net,                          \* REST 'logout' requests in flight
    loggedOut,                    \* a logOut has resolved, and since it was
                                  \* called neither setCurrentUser nor
                                  \* _clearCache has been
    ev,                           \* what the last step did and returned
    objectState,                  \* the Object State of each identity
    action,                       \* the action dispatched last
    taskQ,                        \* the task queue of each identity
    applied,                      \* the tasks whose effect has been applied
    rest,                         \* REST requests of user operations in flight
    calls,                        \* how many such requests were issued
    users,                        \* the user objects callers hold, each as
                                  \* it stands now, by reference
    origin                        \* history of the stored item: whether the
                                  \* write of a setCurrentUser put it there,
                                  \* and whether the cache was reset since

vars == <<canUseCurrentUser, currentUserCache, currentUserCacheMatchesDisk,
          storageAsync, disk, storeQ, net, loggedOut, ev, objectState,
          action, taskQ, applied, rest, calls, users, origin>>

\* what the operations on the current-user cache leave alone
others == <<objectState, action, taskQ, applied, rest, calls, users>>

\* the state table before any identity is referenced
EmptyTable == [identity \in {} |-> identity]

\* the action the store reduces when it is created
InitAction == [type |-> "@@redux/INIT", payload |-> <<>>]

\* what a step that dispatches a user action leaves alone
rests == <<objectState, taskQ, applied, rest, calls, users>>

\* what a step that changes a user object leaves alone
tables == <<objectState, taskQ, applied, calls>>

\* the user objects callers hold, as they stand now: those they have made
\* and those ParseUser.current(), currentAsync() and become() handed out
Held == { users[r] : r \in DOMAIN users }

\* the user objects an instance method or setCurrentUser is called with: an
\* object stays in the caller's hands when the cache has moved on
Callers == Held

\* how many user objects the reads and become build in one behaviour
MaxObjects == 1

\* the user objects the reads and become have built so far: the ones no
\* caller made
Built ==
    { r \in DOMAIN users :
        r \notin { user.ref : user \in CallerUsers \cup LegacyKeyUsers } }

\* the reference of the user object the step builds
NewRef == "o" \o ToString(Cardinality(Built) + 1)

\* the step may build a user object
HasRoom == Cardinality(Built) < MaxObjects

\* the value ret is a user object the step has built
Made(ret) == ret.kind = "user" /\ ret.ref \notin DOMAIN users

\* the objects callers hold once a step has returned ret: a user object it
\* has built is in the caller's hands from then on
Keep(held, ret) ==
    IF ret.kind = "user" /\ ret.ref \notin DOMAIN held
    THEN [r \in DOMAIN held \cup {ret.ref} |->
             IF r = ret.ref THEN ret ELSE held[r]]
    ELSE held

\* every reference to a user object a caller holds shows the object as it
\* stands now: the cache, the requests in flight and the writes in flight
OneObject ==
    /\ currentUserCache.kind = "user" =>
           /\ currentUserCache.ref \in DOMAIN users
           /\ users[currentUserCache.ref] = currentUserCache
    /\ \A i \in 1..Len(rest) :
           (rest[i].user.kind = "user" /\ rest[i].user.ref \in DOMAIN users)
               => users[rest[i].user.ref] = rest[i].user
    /\ \A i \in 1..Len(storeQ) :
           (storeQ[i].op = "setItem" /\ storeQ[i].user.ref \in DOMAIN users)
               => users[storeQ[i].user.ref] = storeQ[i].user

\* a reference x to the object that was `before` sees it as `after`: two
\* objects are one when they are the same object, not when their fields
\* are equal
Alias(x, before, after) ==
    IF x.kind = "user" /\ before.kind = "user" /\ x.ref = before.ref
    THEN after
    ELSE x

AliasAll(q, before, after) ==
    [i \in 1..Len(q) |-> [q[i] EXCEPT !.user = Alias(@, before, after)]]

\* the requests of Storage in flight once `before` has become `after`: a
\* write resolves with the user object it was called with, a removal names
\* the user as logOut found it
AliasWrites(q, before, after) ==
    [i \in 1..Len(q) |->
        IF q[i].op = "setItem"
        THEN [q[i] EXCEPT !.user = Alias(@, before, after)]
        ELSE q[i]]

\* the objects callers hold once the object `before` has become `after`
AliasHeld(held, before, after) ==
    [r \in DOMAIN held |-> Alias(held[r], before, after)]

\* UserActions.set(user): the action currentUserCache.set dispatches
UserSet(user) == [type |-> "SET_USER", payload |-> <<user>>]

\* a currentUserCache.set that assigns without dispatching
currentUserCacheSet_Silent(user) ==
    /\ action' = action
    /\ currentUserCache' = user

\* currentUserCache.set(user) (ParseUser.js:40-43): the action is
\* dispatched, then the closure variable is assigned
currentUserCacheSet(user) ==
    /\ action' = UserSet(user)
    /\ currentUserCache' = user

\* the stored item is not one a setCurrentUser of this run wrote
NoOrigin == [by |-> "other", cleared |-> FALSE, ref |-> Null, json |-> Null]

\* Storage has taken the write of setCurrentUser(user)
\* (Storage.setItemAsync has resolved, ParseUser.js:742-746): the user
\* object and the snapshot that is now the stored item
TookWrite(user, data) ==
    [by |-> "setCurrentUser", cleared |-> FALSE, ref |-> user.ref,
     json |-> parse(data)]

\* the store, the task queues and the network before any call
OthersInit ==
    /\ objectState = EmptyTable
    /\ action = InitAction
    /\ taskQ = EmptyTable
    /\ applied = <<>>
    /\ rest = <<>>
    /\ calls = 0
    /\ users = HeapOf(CallerUsers)
    /\ origin = NoOrigin

\* the record of a step: the operation, its user argument, what it returned
\* (or how its promise stands) and whether it asked Storage for the item
Event(op, user, ret, io) == [op |-> op, user |-> user, ret |-> ret, io |-> io]

\* a request in flight at an asynchronous Storage
StoreRequest(op, for, user, data, token, clean) ==
    [op |-> op, for |-> for, user |-> user, data |-> data, token |-> token,
     clean |-> clean]

\* RESTController.request('POST', 'logout', {}, { sessionToken: token })
LogoutRequest(token, clean) ==
    [method |-> "POST", path |-> "logout", sessionToken |-> token,
     clean |-> clean]

\* snapshots an earlier run of the program, or of an older SDK, left behind
StoredSnapshots ==
    { Json("_User", "id1", Undefined, "r:tok", Undefined, "alice"),
      Json(Undefined, Undefined, "id2", Undefined, "tok", Undefined),
      Json("_User", "id1", "id2", "tok", "r:tok", "alice"),
      Json("", "id1", "", Undefined, "", Undefined) }

InitialDisk == {Null, Malformed} \cup { stringify(j) : j \in StoredSnapshots }

Init ==
    /\ canUseCurrentUser \in BOOLEAN
    /\ currentUserCache = Null
    /\ currentUserCacheMatchesDisk = FALSE
    /\ storageAsync \in BOOLEAN
    /\ disk \in InitialDisk
    /\ storeQ = <<>>
    /\ net = <<>>
    /\ loggedOut = FALSE
    /\ ev = Event("init", Null, Null, FALSE)
    /\ OthersInit

(***************************************************************************)
(* Reads                                                                   *)
(***************************************************************************)
\* ParseObject.fromJSON(userData) in a read: each load builds a new object
NewUser(userData) == [LoadUser(userData) EXCEPT !.ref = NewRef]

\* a load that takes a stored string that is not JSON for no entry at all
Loaded_IgnoresMalformed(userData, cache) ==
    IF userData = Null \/ ~CanParse(userData)
    THEN [cache |-> Null, ret |-> Null]
    ELSE [cache |-> NewUser(userData), ret |-> NewUser(userData)]

\* a load that forgets currentUserCache.set(null) when nothing is stored
Loaded_KeepsCache(userData, cache) ==
    IF userData = Null
    THEN [cache |-> cache, ret |-> Null]
    ELSE IF ~CanParse(userData)
    THEN [cache |-> cache, ret |-> Failure("SyntaxError")]
    ELSE [cache |-> NewUser(userData), ret |-> NewUser(userData)]

\* what a read does with the item Storage returned (ParseUser.js:773-794 and
\* 810-831), after it has set currentUserCacheMatchesDisk: the cache it
\* leaves and the value it returns or the error it throws
Loaded(userData, cache) ==
    IF userData = Null
    THEN [cache |-> Null, ret |-> Null]
    ELSE IF ~CanParse(userData)
    THEN [cache |-> cache, ret |-> Failure("SyntaxError")]
    ELSE [cache |-> NewUser(userData), ret |-> NewUser(userData)]

\* a currentUser() that loads the stored user but leaves the flag as it was
currentUserResult_LeavesFlag(cache, matchesDisk, async, item) ==
    IF cache # Null
    THEN [cache |-> cache, matchesDisk |-> matchesDisk, ret |-> cache,
          io |-> FALSE, set |-> FALSE]
    ELSE IF matchesDisk
    THEN [cache |-> cache, matchesDisk |-> matchesDisk, ret |-> Null,
          io |-> FALSE, set |-> FALSE]
    ELSE IF async
    THEN [cache |-> cache, matchesDisk |-> matchesDisk,
          ret |-> Failure("AsyncStorage"), io |-> FALSE, set |-> FALSE]
    ELSE [cache |-> Loaded(item, cache).cache, matchesDisk |-> matchesDisk,
          ret |-> Loaded(item, cache).ret, io |-> TRUE,
          set |-> Loaded(item, cache).ret.kind # "error"]

\* a currentUser() that skips the check of Storage.async()
currentUserResult_NoAsyncCheck(cache, matchesDisk, async, item) ==
    IF cache # Null
    THEN [cache |-> cache, matchesDisk |-> matchesDisk, ret |-> cache,
          io |-> FALSE, set |-> FALSE]
    ELSE IF matchesDisk
    THEN [cache |-> cache, matchesDisk |-> matchesDisk, ret |-> Null,
          io |-> FALSE, set |-> FALSE]
    ELSE [cache |-> Loaded(item, cache).cache, matchesDisk |-> TRUE,
          ret |-> Loaded(item, cache).ret, io |-> TRUE,
          set |-> Loaded(item, cache).ret.kind # "error"]

\* a currentUser() that does not trust an empty cache that matches the disk
currentUserResult_Reloads(cache, matchesDisk, async, item) ==
    IF cache # Null
    THEN [cache |-> cache, matchesDisk |-> matchesDisk, ret |-> cache,
          io |-> FALSE, set |-> FALSE]
    ELSE IF async
    THEN [cache |-> cache, matchesDisk |-> matchesDisk,
          ret |-> Failure("AsyncStorage"), io |-> FALSE, set |-> FALSE]
    ELSE [cache |-> Loaded(item, cache).cache, matchesDisk |-> TRUE,
          ret |-> Loaded(item, cache).ret, io |-> TRUE,
          set |-> Loaded(item, cache).ret.kind # "error"]

\* DefaultController.currentUser() as a function of what it reads: the cache
\* and flag it leaves, what it returns or throws, and whether it called
\* Storage.getItem
currentUserResult(cache, matchesDisk, async, item) ==
    IF cache # Null
    THEN [cache |-> cache, matchesDisk |-> matchesDisk, ret |-> cache,
          io |-> FALSE, set |-> FALSE]
    ELSE IF matchesDisk
    THEN [cache |-> cache, matchesDisk |-> matchesDisk, ret |-> Null,
          io |-> FALSE, set |-> FALSE]
    ELSE IF async
    THEN [cache |-> cache, matchesDisk |-> matchesDisk,
          ret |-> Failure("AsyncStorage"), io |-> FALSE, set |-> FALSE]
    ELSE [cache |-> Loaded(item, cache).cache, matchesDisk |-> TRUE,
          ret |-> Loaded(item, cache).ret, io |-> TRUE,
          set |-> Loaded(item, cache).ret.kind # "error"]

\* what a read does to the memory cache with what Loaded made of the stored
\* item: currentUserCache.set is called unless the item did not parse
LoadInto(got) ==
    IF got.ret.kind = "error"
    THEN UNCHANGED <<currentUserCache, action>>
    ELSE currentUserCacheSet(got.cache)

\* DefaultController.currentUser()
currentUser ==
    LET r == currentUserResult(currentUserCache, currentUserCacheMatchesDisk,
                               storageAsync, disk)
    IN  /\ IF r.set
           THEN currentUserCacheSet(r.cache)
           ELSE UNCHANGED <<currentUserCache, action>>
        /\ currentUserCacheMatchesDisk' = r.matchesDisk
        /\ ev' = Event("currentUser", Null, r.ret, r.io)
        /\ Made(r.ret) => HasRoom
        /\ users' = Keep(users, r.ret)
        /\ UNCHANGED <<canUseCurrentUser, storageAsync, tables, rest, disk, origin,
                       storeQ, net, loggedOut>>

\* ParseUser.current()
current ==
    IF ~canUseCurrentUser
    THEN /\ ev' = Event("current", Null, Null, FALSE)
         /\ UNCHANGED <<canUseCurrentUser, currentUserCache,
                        currentUserCacheMatchesDisk, storageAsync, others, disk, origin,
                        storeQ, net, loggedOut>>
    ELSE currentUser

\* DefaultController.currentUserAsync()
currentUserAsync ==
    /\ UNCHANGED <<canUseCurrentUser, storageAsync, tables, rest, disk, origin, net,
                   loggedOut>>
    /\ IF currentUserCache # Null
       THEN /\ ev' = Event("currentUserAsync", Null, currentUserCache, FALSE)
            /\ UNCHANGED <<currentUserCache, currentUserCacheMatchesDisk,
                           storeQ, action, users>>
       ELSE IF currentUserCacheMatchesDisk
       THEN /\ ev' = Event("currentUserAsync", Null, Null, FALSE)
            /\ UNCHANGED <<currentUserCache, currentUserCacheMatchesDisk,
                           storeQ, action, users>>
       ELSE IF storageAsync
       THEN /\ Len(storeQ) < MaxPending
            /\ storeQ' = Append(storeQ,
                    StoreRequest("getItem", "currentUserAsync", Null, Null,
                                 Undefined, FALSE))
            /\ ev' = Event("currentUserAsync", Null, Pending, TRUE)
            /\ UNCHANGED <<currentUserCache, currentUserCacheMatchesDisk,
                           action, users>>
       ELSE /\ currentUserCacheMatchesDisk' = TRUE
            /\ LoadInto(Loaded(disk, currentUserCache))
            /\ ev' = Event("currentUserAsync", Null,
                           Loaded(disk, currentUserCache).ret, TRUE)
            /\ Made(Loaded(disk, currentUserCache).ret) => HasRoom
            /\ users' = Keep(users, Loaded(disk, currentUserCache).ret)
            /\ UNCHANGED storeQ

\* ParseUser.currentAsync()
currentAsync ==
    IF ~canUseCurrentUser
    THEN /\ ev' = Event("currentAsync", Null, Null, FALSE)
         /\ UNCHANGED <<canUseCurrentUser, currentUserCache,
                        currentUserCacheMatchesDisk, storageAsync, others, disk, origin,
                        storeQ, net, loggedOut>>
    ELSE currentUserAsync

(***************************************************************************)
(* Writes                                                                  *)
(***************************************************************************)
\* a logOut in flight stops counting as undisturbed once setCurrentUser or
\* _clearCache is called
Disturb(q) == [i \in 1..Len(q) |-> [q[i] EXCEPT !.clean = FALSE]]

\* a setCurrentUser that leaves the memory cache to the next load
CacheAfterSet_Deferred(user) == currentUserCache

\* the cache after currentUserCache.set(user) in setCurrentUser
CacheAfterSet(user) == user

\* DefaultController.setCurrentUser(user) (ParseUser.js:749-754) as the
\* step named op does it: the cache is set, then the user is written; q and
\* item are the Storage queue and the stored item the step finds, history
\* is the history of that item, io tells whether the step has asked Storage
\* for the item before
SetCurrentOn(user, op, q, item, history, io) ==
    /\ currentUserCacheSet(CacheAfterSet(user))
    /\ loggedOut' = FALSE
    /\ net' = Disturb(net)
    /\ IF storageAsync
       THEN /\ Len(q) < MaxPending
            /\ storeQ' = Append(Disturb(q),
                    StoreRequest("setItem", "setCurrentUser", user,
                                 UserOnDisk(user), Undefined, FALSE))
            /\ ev' = Event(op, user, Pending, io)
            /\ disk' = item
            /\ origin' = history
       ELSE /\ disk' = UserOnDisk(user)
            /\ origin' = TookWrite(user, UserOnDisk(user))
            /\ ev' = Event(op, user, user, io)
            /\ storeQ' = q

SetCurrent(user, op, io) ==
    SetCurrentOn(user, op, storeQ, disk, origin, io)

\* DefaultController.setCurrentUser(user), called on the controller that
\* CoreManager.getUserController() hands out: it does not test
\* canUseCurrentUser, its callers signUp, logIn and linkWith do
setCurrentUser(user) ==
    /\ SetCurrent(user, "setCurrentUser", FALSE)
    /\ UNCHANGED <<canUseCurrentUser, currentUserCacheMatchesDisk,
                   storageAsync, rests>>

\* ParseUser._clearCache()
_clearCache ==
    /\ currentUserCacheSet(Null)
    /\ currentUserCacheMatchesDisk' = FALSE
    /\ loggedOut' = FALSE
    /\ storeQ' = Disturb(storeQ)
    /\ net' = Disturb(net)
    /\ ev' = Event("_clearCache", Null, Null, FALSE)
    /\ origin' = [origin EXCEPT !.cleared = (origin.by = "setCurrentUser")]
    /\ UNCHANGED <<canUseCurrentUser, storageAsync, rests, disk>>

\* ParseUser._setCurrentUserCache(user)
_setCurrentUserCache(user) ==
    /\ currentUserCacheSet(user)
    /\ loggedOut' = FALSE
    /\ storeQ' = Disturb(storeQ)
    /\ net' = Disturb(net)
    /\ ev' = Event("_setCurrentUserCache", user, Null, FALSE)
    /\ UNCHANGED <<canUseCurrentUser, currentUserCacheMatchesDisk,
                   storageAsync, rests, disk, origin>>

\* ParseUser.enableUnsafeCurrentUser()
enableUnsafeCurrentUser ==
    /\ canUseCurrentUser' = TRUE
    /\ ev' = Event("enableUnsafeCurrentUser", Null, Null, FALSE)
    /\ UNCHANGED <<currentUserCache, currentUserCacheMatchesDisk,
                   storageAsync, others, disk, origin, storeQ, net, loggedOut>>

\* ParseUser.disableUnsafeCurrentUser()
disableUnsafeCurrentUser ==
    /\ canUseCurrentUser' = FALSE
    /\ ev' = Event("disableUnsafeCurrentUser", Null, Null, FALSE)
    /\ UNCHANGED <<currentUserCache, currentUserCacheMatchesDisk,
                   storageAsync, others, disk, origin, storeQ, net, loggedOut>>

(***************************************************************************)
(* logOut                                                                  *)
(***************************************************************************)
\* logOut calls that have not settled: each holds a Storage request or a
\* REST request
LogOutsInFlight ==
    Cardinality({ i \in 1..Len(storeQ) : storeQ[i].for = "logOut" }) + Len(net)

\* a logOut that revokes every session token, revocable or not
MustRevoke_AnyToken(user) ==
    /\ user # Null
    /\ Truthy(getSessionToken(user))

\* currentSession is sent to the server when there is a user and its token
\* is revocable (ParseUser.js:911-913)
MustRevoke(user) ==
    /\ user # Null
    /\ Truthy(getSessionToken(user))
    /\ isRevocableSession(getSessionToken(user))

\* a logOut that does not wait for the 'logout' request it issues
AfterRemoval_BestEffort(revoke) == Resolved

\* how the promise logOut returns stands once Storage has removed the item
\* (ParseUser.js:914-918): behind the 'logout' request when one is chained
AfterRemoval(revoke) == IF revoke THEN Pending ELSE Resolved

\* the user that was current once logOut has called
\* _finishFetch({ sessionToken: undefined }) on it (ParseUser.js:921);
\* _logOutWithAll (920) does nothing to a user without authData
WithoutSession(user) ==
    IF user = Null
    THEN Null
    ELSE [user EXCEPT !.attributes.sessionToken = Undefined]

\* the callback of logOut (ParseUser.js:907-927), run with the current user
\* it was given; q is the Storage queue it finds, op names the step. The
\* session token is read (911) before the user loses it (921), and every
\* reference to the user sees it without the token from then on; the record
\* of the step and the request to Storage name the user as the callback was
\* given it
logOutThen(user, q, clean, op, io) ==
    LET left == WithoutSession(user)
        queue == AliasWrites(q, user, left)
    IN  /\ currentUserCacheMatchesDisk' = TRUE
        /\ currentUserCacheSet(Null)
        /\ users' = AliasHeld(users, user, left)
        /\ rest' = AliasAll(rest, user, left)
        /\ IF storageAsync
           THEN /\ storeQ' = Append(queue,
                        StoreRequest("removeItem", "logOut", user, Null,
                            IF MustRevoke(user) THEN getSessionToken(user)
                                                ELSE Undefined, clean))
                /\ ev' = Event(op, user, Pending, io)
                /\ UNCHANGED <<disk, origin, net, loggedOut>>
           ELSE /\ disk' = Null
                /\ origin' = NoOrigin
                /\ storeQ' = queue
                /\ net' = IF MustRevoke(user)
                          THEN Append(net,
                                   LogoutRequest(getSessionToken(user), clean))
                          ELSE net
                /\ ev' = Event(op, user, AfterRemoval(MustRevoke(user)), io)
                /\ loggedOut' = IF MustRevoke(user) THEN loggedOut
                                ELSE (loggedOut \/ clean)

\* DefaultController.logOut()
controllerLogOut ==
    /\ LogOutsInFlight < MaxLogOuts
    /\ UNCHANGED <<canUseCurrentUser, storageAsync, tables>>
    /\ IF currentUserCache # Null \/ currentUserCacheMatchesDisk
       THEN /\ storageAsync => Len(storeQ) < MaxPending
            /\ logOutThen(currentUserCache, storeQ, TRUE, "logOut", FALSE)
       ELSE IF storageAsync
       THEN /\ Len(storeQ) < MaxPending
            /\ storeQ' = Append(storeQ,
                    StoreRequest("getItem", "logOut", Null, Null, Undefined,
                                 TRUE))
            /\ ev' = Event("logOut", Null, Pending, TRUE)
            /\ UNCHANGED <<currentUserCache, currentUserCacheMatchesDisk,
                           disk, origin, net, loggedOut, action, users, rest>>
       ELSE IF Loaded(disk, currentUserCache).ret.kind = "error"
       THEN /\ currentUserCacheMatchesDisk' = TRUE
            /\ ev' = Event("logOut", Null,
                           Loaded(disk, currentUserCache).ret, TRUE)
            /\ UNCHANGED <<currentUserCache, disk, origin, storeQ, net, loggedOut,
                           action, users, rest>>
       ELSE logOutThen(Loaded(disk, currentUserCache).ret, storeQ, TRUE,
                       "logOut", TRUE)

\* ParseUser.logOut()
logOut ==
    IF ~canUseCurrentUser
    THEN /\ ev' = Event("logOut", Null, Failure("NoCurrentUser"), FALSE)
         /\ UNCHANGED <<canUseCurrentUser, currentUserCache,
                        currentUserCacheMatchesDisk, storageAsync, others, disk, origin,
                        storeQ, net, loggedOut>>
    ELSE controllerLogOut

(***************************************************************************)
(* Storage and the REST controller                                         *)
(***************************************************************************)
\* the writes of updateUserOnDisk behind which signUp and linkWith chain
\* their own callback (ParseUser.js:856, 971)
ChainedWrites == {"signUp", "linkWith"}

\* an asynchronous Storage serves its oldest request; the callback that
\* waits for it runs in the same step
StoreResolve ==
    /\ storeQ # <<>>
    /\ LET req == Head(storeQ)
           got == Loaded(disk, currentUserCache)
       IN  CASE req.op = "getItem" /\ req.for = "currentUserAsync" ->
                  /\ currentUserCacheMatchesDisk' = TRUE
                  /\ LoadInto(got)
                  /\ storeQ' = Tail(storeQ)
                  /\ ev' = Event("currentUserAsync.settled", Null, got.ret,
                                 FALSE)
                  /\ Made(got.ret) => HasRoom
                  /\ users' = Keep(users, got.ret)
                  /\ UNCHANGED <<disk, origin, net, loggedOut, rest>>
             [] req.op = "getItem" /\ req.for = "logOut" ->
                  IF got.ret.kind = "error"
                  THEN /\ currentUserCacheMatchesDisk' = TRUE
                       /\ storeQ' = Tail(storeQ)
                       /\ ev' = Event("logOut.read", Null, got.ret, FALSE)
                       /\ UNCHANGED <<currentUserCache, disk, origin, net, loggedOut,
                                      action, users, rest>>
                  ELSE logOutThen(got.ret, Tail(storeQ), req.clean,
                                  "logOut.read", FALSE)
             [] req.op = "setItem" /\ req.for \in ChainedWrites ->
                  IF canUseCurrentUser
                  THEN /\ SetCurrentOn(req.user, req.for \o ".settled",
                                       Tail(storeQ), req.data, NoOrigin,
                                       FALSE)
                       /\ UNCHANGED <<currentUserCacheMatchesDisk, users,
                                      rest>>
                  ELSE /\ disk' = req.data
                       /\ origin' = NoOrigin
                       /\ storeQ' = Tail(storeQ)
                       /\ ev' = Event(req.for \o ".settled", req.user,
                                      req.user, FALSE)
                       /\ UNCHANGED <<currentUserCache,
                                      currentUserCacheMatchesDisk, net,
                                      loggedOut, action, users, rest>>
             [] req.op = "setItem" /\ req.for \notin ChainedWrites ->
                  /\ disk' = req.data
                  /\ origin' = IF req.for = "setCurrentUser"
                                THEN TookWrite(req.user, req.data)
                                ELSE NoOrigin
                  /\ storeQ' = Tail(storeQ)
                  /\ ev' = Event(req.for \o ".settled", req.user, req.user,
                                 FALSE)
                  /\ UNCHANGED <<currentUserCache,
                                 currentUserCacheMatchesDisk, net, loggedOut,
                                 action, users, rest>>
             [] req.op = "removeItem" ->
                  /\ disk' = Null
                  /\ origin' = NoOrigin
                  /\ storeQ' = Tail(storeQ)
                  /\ net' = IF req.token # Undefined
                            THEN Append(net,
                                     LogoutRequest(req.token, req.clean))
                            ELSE net
                  /\ ev' = Event("logOut.removed", req.user,
                                 AfterRemoval(req.token # Undefined), FALSE)
                  /\ loggedOut' = IF req.token # Undefined THEN loggedOut
                                  ELSE (loggedOut \/ req.clean)
                  /\ UNCHANGED <<currentUserCache,
                                 currentUserCacheMatchesDisk, action, users,
                                 rest>>
    /\ UNCHANGED <<canUseCurrentUser, storageAsync, tables>>

\* an asynchronous Storage fails its oldest request: the promise of the
\* call that waits for it is rejected and its callback does not run
StoreReject ==
    /\ storeQ # <<>>
    /\ storeQ' = Tail(storeQ)
    /\ ev' = Event(
            CASE Head(storeQ).for = "currentUserAsync" ->
                     "currentUserAsync.settled"
              [] Head(storeQ).op = "setItem" ->
                     Head(storeQ).for \o ".settled"
              [] Head(storeQ).op = "getItem" -> "logOut.read"
              [] OTHER -> "logOut.removed",
            Head(storeQ).user, Failure("StorageError"), FALSE)
    /\ UNCHANGED <<canUseCurrentUser, currentUserCache,
                   currentUserCacheMatchesDisk, storageAsync, others, disk, origin, net,
                   loggedOut>>

\* the sequence q without its i-th element
Without(q, i) == SubSeq(q, 1, i - 1) \o SubSeq(q, i + 1, Len(q))

\* the server answers a 'logout' request: the promise of logOut resolves
RequestResolve ==
    \E i \in 1..Len(net) :
        /\ net' = Without(net, i)
        /\ loggedOut' = (loggedOut \/ net[i].clean)
        /\ ev' = Event("logOut.requested", Null, Resolved, FALSE)
        /\ UNCHANGED <<canUseCurrentUser, currentUserCache,
                       currentUserCacheMatchesDisk, storageAsync, others, disk, origin,
                       storeQ>>

\* a 'logout' request fails: the promise of logOut is rejected
RequestReject ==
    \E i \in 1..Len(net) :
        /\ net' = Without(net, i)
        /\ ev' = Event("logOut.requested", Null, Failure("RequestError"),
                       FALSE)
        /\ UNCHANGED <<canUseCurrentUser, currentUserCache,
                       currentUserCacheMatchesDisk, storageAsync, others, disk, origin,
                       storeQ, loggedOut>>

(***************************************************************************)
(* Specification                                                           *)
(***************************************************************************)
Next ==
    \/ current
    \/ currentAsync
    \/ \E user \in Callers : setCurrentUser(user)
    \/ logOut
    \/ _clearCache
    \/ enableUnsafeCurrentUser
    \/ disableUnsafeCurrentUser
    \/ StoreResolve
    \/ StoreReject
    \/ RequestResolve
    \/ RequestReject

Spec == Init /\ [][Next]_vars

(***************************************************************************)
(* Properties                                                              *)
(***************************************************************************)
\* a step that is a call of a read of the current identity
IsRead(e) == e.op \in {"currentUser", "currentUserAsync"}

\* a write of setCurrentUser(user) that Storage has not acknowledged
WritePending(user) ==
    \E i \in 1..Len(storeQ) :
        storeQ[i].op = "setItem" /\ storeQ[i].user = user

\* C1: with current-user use enabled, a read (currentUser() or
\* currentUserAsync()) made right after setCurrentUser(U), before the store
\* write is acknowledged, returns U: from every cache state and on
\* synchronous and asynchronous stores alike.
C1_ReadAfterSetCurrentUser ==
    [][(ev.op = "setCurrentUser" /\ IsRead(ev'))
          => (ev'.ret = ev.user /\ ~ev'.io)]_vars

\* C1 witness: on an asynchronous store, a read has returned the user whose
\* write is still in flight.
C1_Witness ==
    /\ storageAsync
    /\ IsRead(ev)
    /\ ev.ret \in CallerUsers
    /\ WritePending(ev.ret)

\* C2 (as claimed): a read of the store that settles never replaces the
\* user setCurrentUser put in the memory cache, so reads keep returning that
\* user until the next setCurrentUser, logOut or _clearCache.
C2_ReadYourWrites ==
    [][(currentUserCache \in CallerUsers
          /\ ev'.op = "currentUserAsync.settled")
          => currentUserCache' = currentUserCache]_vars

\* the step removed the stored item on behalf of a logOut: at the call on a
\* synchronous store, when Storage serves the removal on an asynchronous one
RemovalDone(e) ==
    \/ e.op = "logOut" /\ ~storageAsync /\ e.ret.kind # "error"
    \/ e.op = "logOut.removed" /\ e.ret.kind # "error"

\* a 'logout' request carrying the user's session token is in flight
RequestInFlight(user) ==
    \E i \in 1..Len(net) : net[i].sessionToken = getSessionToken(user)

\* C3 (as claimed): with a revocable session token, the result of logOut
\* completes as soon as the removal from the persistent store completes.
C3_CompletesAtRemoval ==
    (RemovalDone(ev) /\ MustRevoke(ev.user)) => ev.ret = Resolved

\* C3 (amended): once the removal has completed, the result of logOut is
\* complete exactly when no 'logout' request is due (no current user, or a
\* token that is not revocable); with a revocable token the request is then
\* in flight and the result of logOut waits for it.
C3_WaitsForRequest ==
    RemovalDone(ev) =>
        /\ ev.ret = (IF MustRevoke(ev.user) THEN Pending ELSE Resolved)
        /\ MustRevoke(ev.user) => RequestInFlight(ev.user)

\* C3 witness: the removal is done, the user's token is revocable, and the
\* logOut is still pending behind its 'logout' request.
C3_Witness ==
    /\ RemovalDone(ev)
    /\ MustRevoke(ev.user)
    /\ ev.ret = Pending
    /\ RequestInFlight(ev.user)

\* C4 (as claimed): after a logOut has completed, with no setCurrentUser or
\* _clearCache since it was called, the store holds no entry, the memory
\* cache is empty, cacheMatchesDisk is true, and a read returns absent
\* without reading the store.
C4_AfterLogOut ==
    loggedOut =>
        /\ disk = Null
        /\ currentUserCache = Null
        /\ currentUserCacheMatchesDisk
        /\ currentUserResult(currentUserCache, currentUserCacheMatchesDisk,
                             storageAsync, disk).ret = Null
        /\ ~currentUserResult(currentUserCache, currentUserCacheMatchesDisk,
                              storageAsync, disk).io

\* the frame of a read that stays in memory: cache, flag, store and requests
\* in flight are as they were
ReadFrame ==
    UNCHANGED <<currentUserCache, currentUserCacheMatchesDisk, disk, storeQ,
                net>>

\* C5 (as claimed): on an asynchronous-only store every call of the
\* synchronous currentUser() fails with a usage error, whatever the cache
\* state, without store I/O and without changing cache or flag.
C5_AlwaysFailsFast ==
    [][(storageAsync /\ ev'.op = "currentUser")
          => (ev'.ret = Failure("AsyncStorage") /\ ~ev'.io /\ ReadFrame)]_vars

\* C5 (amended): on an asynchronous-only store currentUser() fails with the
\* usage error exactly in the unknown state (cache empty, cacheMatchesDisk
\* false); with a populated cache it returns the cached user and with an
\* empty cache that matches the disk it returns absent; in all three cases
\* it issues no store I/O and changes neither cache nor flag.
C5_FailsFastWhenUnknown ==
    [][(storageAsync /\ ev'.op = "currentUser")
          => /\ ~ev'.io
             /\ ReadFrame
             /\ ev'.ret =
                  (IF currentUserCache = Null /\ ~currentUserCacheMatchesDisk
                   THEN Failure("AsyncStorage")
                   ELSE currentUserCache)]_vars

\* C5 witness: currentUser() has thrown the usage error on an asynchronous
\* store and the cache is still unknown.
C5_Witness ==
    /\ storageAsync
    /\ ev.op = "currentUser"
    /\ ev.ret = Failure("AsyncStorage")
    /\ currentUserCache = Null
    /\ ~currentUserCacheMatchesDisk

\* C6 (as claimed): whenever no store I/O is pending, an empty memory cache
\* with cacheMatchesDisk true means the store holds no current-user entry.
C6_NullIsAuthoritative ==
    (storeQ = <<>> /\ currentUserCacheMatchesDisk /\ currentUserCache = Null)
        => disk = Null

\* C7: a read issues a store read only in the unknown state; with a
\* populated cache it returns the cached user, with an empty cache and
\* cacheMatchesDisk true it returns absent, and in both cases there is no
\* store I/O and cache and flag are unchanged.
C7_ReadOnlyWhenUnknown ==
    [][/\ ev'.io => (currentUserCache = Null /\ ~currentUserCacheMatchesDisk)
       /\ (IsRead(ev') /\ currentUserCache # Null)
             => (ev'.ret = currentUserCache /\ ~ev'.io /\ ReadFrame)
       /\ (IsRead(ev') /\ currentUserCache = Null
                       /\ currentUserCacheMatchesDisk)
             => (ev'.ret = Null /\ ~ev'.io /\ ReadFrame)]_vars

\* C7 witness: a read has returned absent from an empty cache that matches
\* the disk, without store I/O, while the state was reached by a load.
C7_Witness ==
    /\ IsRead(ev)
    /\ ev.ret = Null
    /\ ~ev.io
    /\ currentUserCache = Null
    /\ currentUserCacheMatchesDisk

\* the step delivered the store's item to a read of the current identity:
\* at the call on a synchronous store, when Storage resolves on an
\* asynchronous one
ReadDelivered(e) ==
    \/ IsRead(e) /\ e.io /\ ~storageAsync
    \/ e.op = "currentUserAsync.settled" /\ e.ret # Failure("StorageError")

\* two user objects with the same class, id and attributes
SameUser(a, b) ==
    /\ a.kind = "user" /\ b.kind = "user"
    /\ a.className = b.className
    /\ a.id = b.id
    /\ a.attributes = b.attributes

\* C8 (as claimed): the cache starts unknown; when the store result of a
\* read in that state is available, cacheMatchesDisk becomes true and the
\* memory cache becomes the loaded user if the store held an entry and empty
\* otherwise, and the read returns that value.
C8_LoadFillsCache ==
    /\ currentUserCache = Null /\ ~currentUserCacheMatchesDisk
    /\ [][ReadDelivered(ev')
            => /\ currentUserCacheMatchesDisk'
               /\ ev'.ret = currentUserCache'
               /\ IF disk = Null
                  THEN currentUserCache' = Null
                  ELSE currentUserCache'.kind = "user"]_vars

\* C8 (amended): as claimed when the store holds no entry or an entry that
\* parses, and the loaded user is a new object with the fields of the entry;
\* when the entry does not parse, cacheMatchesDisk still becomes true but
\* the read fails and the memory cache is left as it was.
C8_LoadFillsCacheWhenParsable ==
    /\ currentUserCache = Null /\ ~currentUserCacheMatchesDisk
    /\ [][ReadDelivered(ev')
            => /\ currentUserCacheMatchesDisk'
               /\ IF disk = Null
                  THEN currentUserCache' = Null /\ ev'.ret = Null
                  ELSE IF CanParse(disk)
                  THEN /\ SameUser(currentUserCache', LoadUser(disk))
                       /\ Made(currentUserCache')
                       /\ ev'.ret = currentUserCache'
                  ELSE /\ currentUserCache' = currentUserCache
                       /\ ev'.ret = Failure("SyntaxError")]_vars

\* C8 witness: an asynchronous read has resolved with the stored user, which
\* is now the memory cache, and cacheMatchesDisk is true.
C8_Witness ==
    /\ ev.op = "currentUserAsync.settled"
    /\ ev.ret.kind = "user"
    /\ currentUserCache = ev.ret
    /\ CanParse(disk) /\ SameUser(ev.ret, LoadUser(disk))
    /\ currentUserCacheMatchesDisk

\* the step in which Storage took the write of a setCurrentUser: at the call
\* on a synchronous store, when Storage acknowledges on an asynchronous one
WriteSettled(e) ==
    \/ e.op = "setCurrentUser" /\ ~storageAsync
    \/ e.op = "setCurrentUser.settled" /\ e.ret.kind = "user"

\* the JSON object is the full snapshot of the user, tagged with its type
IsSnapshotOf(json, user) ==
    /\ json.className = "_User"
    /\ json.objectId = user.id
    /\ json.sessionToken = user.attributes.sessionToken
    /\ json.username = user.attributes.username
    /\ json._id = user.attributes._id
    /\ json._sessionToken = user.attributes._sessionToken

\* both are no object, or both are the same user object
SameObject(a, b) == a.kind = b.kind /\ (a.kind = "user" => a.ref = b.ref)

\* a run whose callers hold a user with plain attributes and users with an
\* attribute under a legacy key; the store is empty or holds what an earlier
\* run left
RoundTripUsers == {User("u1", "id1", "r:tok", "alice")} \cup LegacyKeyUsers

InitRoundTrip ==
    /\ canUseCurrentUser \in BOOLEAN
    /\ currentUserCache = Null
    /\ currentUserCacheMatchesDisk = FALSE
    /\ storageAsync \in BOOLEAN
    /\ disk \in {Null, UserOnDisk(User("u1", "id1", "r:tok", "alice"))}
    /\ storeQ = <<>>
    /\ net = <<>>
    /\ loggedOut = FALSE
    /\ ev = Event("init", Null, Null, FALSE)
    /\ objectState = EmptyTable
    /\ action = InitAction
    /\ taskQ = EmptyTable
    /\ applied = <<>>
    /\ rest = <<>>
    /\ calls = 0
    /\ users = HeapOf(RoundTripUsers)
    /\ origin = NoOrigin

SpecRoundTrip == InitRoundTrip /\ [][Next]_vars

\* what setCurrentUser(U) does at the call: U is in the memory cache when
\* the write is issued, and the result waits for an asynchronous store
SetsCacheThenWrites ==
    /\ currentUserCache' = ev'.user
    /\ storageAsync
         => (ev'.ret = Pending /\ disk' = disk
             /\ storeQ' # <<>>
             /\ storeQ'[Len(storeQ')].op = "setItem"
             /\ storeQ'[Len(storeQ')].user = ev'.user)
    /\ ~storageAsync => ev'.ret = ev'.user

\* the step delivers the store's item to a read made after Storage took the
\* write of a setCurrentUser and _clearCache then reset the cache, the item
\* being the one that write left
RoundTripRead ==
    /\ origin.by = "setCurrentUser"
    /\ origin.cleared
    /\ ReadDelivered(ev')

\* C9 (as claimed): setCurrentUser(U) has put U in the memory cache when it
\* issues the store write; its result completes only when the store has
\* acknowledged the write; the entry written is U's full attribute snapshot
\* tagged '_User'; and once the write has settled, a read made after
\* _clearCache has reset the cache loads a user with the id and attributes
\* of U.
C9_WriteThenRoundTrip ==
    /\ [][ev'.op = "setCurrentUser" => SetsCacheThenWrites]_vars
    /\ [][WriteSettled(ev')
            => /\ ev'.ret = ev'.user
               /\ CanParse(disk')
               /\ IsSnapshotOf(parse(disk'), ev'.user)]_vars
    /\ [][RoundTripRead => SameUser(ev'.ret, users[origin.ref])]_vars

\* the string setCurrentUser hands to Storage in the step that has just been
\* taken: the data of the request it queued, or the item it stored
Written == IF storageAsync THEN storeQ'[Len(storeQ')].data ELSE disk'

\* the user R has the id and attributes of the snapshot json once the read
\* has moved what json holds under the legacy keys: a non-empty _id is the
\* id of R and a non-empty _sessionToken its session token, and R has
\* neither attribute then
ReadBackFrom(json, R) ==
    /\ R.kind = "user"
    /\ R.className = "_User"
    /\ R.attributes.username = json.username
    /\ IF Truthy(json._id)
       THEN R.id = json._id /\ R.attributes._id = Undefined
       ELSE R.id = json.objectId /\ R.attributes._id = json._id
    /\ IF Truthy(json._sessionToken)
       THEN /\ R.attributes.sessionToken = json._sessionToken
            /\ R.attributes._sessionToken = Undefined
       ELSE /\ R.attributes.sessionToken = json.sessionToken
            /\ R.attributes._sessionToken = json._sessionToken

\* C9 (amended): setCurrentUser(U) has put U in the memory cache when it
\* issues the store write; the string it hands to Storage is the full
\* attribute snapshot, tagged '_User', of U as it is at the call; its result
\* completes only when the store has acknowledged the write, with U, and
\* the entry is then that string. A read made after the write has settled
\* and _clearCache has reset the cache loads a new user from that entry: it
\* has the id and attributes of the snapshot, except that a non-empty _id
\* or _sessionToken attribute comes back as the id or the session token.
C9_WriteThenTranslatedRoundTrip ==
    /\ [][ev'.op = "setCurrentUser"
            => /\ SetsCacheThenWrites
               /\ CanParse(Written)
               /\ IsSnapshotOf(parse(Written), ev'.user)]_vars
    /\ [][(ev'.op = "setCurrentUser.settled" /\ ev'.ret.kind = "user")
            => /\ storeQ # <<>>
               /\ Head(storeQ).op = "setItem"
               /\ ev'.ret = ev'.user
               /\ ev'.user = Head(storeQ).user
               /\ disk' = Head(storeQ).data]_vars
    /\ [][WriteSettled(ev')
            => /\ origin'.by = "setCurrentUser"
               /\ origin'.json = parse(disk')
               /\ origin'.ref = ev'.user.ref]_vars
    /\ [][RoundTripRead
            => /\ CanParse(disk) /\ parse(disk) = origin.json
               /\ ReadBackFrom(origin.json, ev'.ret)
               /\ ev'.ret.ref # origin.ref
               /\ (~Truthy(origin.json._id)
                      /\ ~Truthy(origin.json._sessionToken))
                    => IsSnapshotOf(origin.json, ev'.ret)]_vars

\* C9 witness: an asynchronous store has acknowledged the write of
\* setCurrentUser(U), _clearCache has reset the cache since, and the read
\* that followed has loaded from the entry a new user with the id and
\* attributes of the snapshot written.
C9_Witness ==
    /\ storageAsync
    /\ ev.op = "currentUserAsync.settled"
    /\ origin.by = "setCurrentUser"
    /\ origin.cleared
    /\ ev.ret.kind = "user"
    /\ ev.ret.ref # origin.ref
    /\ IsSnapshotOf(origin.json, ev.ret)
    /\ disk = stringify(origin.json)

(***************************************************************************)
(* Loading a stored snapshot: every snapshot over the keys of Json, read    *)
(* from the unknown state of a synchronous store                            *)
(***************************************************************************)
ClassNames == {Undefined, "", "_User"}
ObjectIds == {Undefined, "id1", "id2"}
LegacyIds == {Undefined, "", "id2"}
SessionTokens == {Undefined, "tok"}
LegacyTokens == {Undefined, "", "r:tok"}
Usernames == {Undefined, "alice"}

AllSnapshots ==
    { Json(c, o, i, t, lt, n) :
        c \in ClassNames, o \in ObjectIds, i \in LegacyIds,
        t \in SessionTokens, lt \in LegacyTokens, n \in Usernames }

InitLoad ==
    /\ canUseCurrentUser = TRUE
    /\ currentUserCache = Null
    /\ currentUserCacheMatchesDisk = FALSE
    /\ storageAsync = FALSE
    /\ disk \in { stringify(j) : j \in AllSnapshots }
    /\ storeQ = <<>>
    /\ net = <<>>
    /\ loggedOut = FALSE
    /\ ev = Event("init", Null, Null, FALSE)
    /\ OthersInit

NextLoad ==
    \/ current
    \/ currentAsync
    \/ _clearCache

SpecLoad == InitLoad /\ [][NextLoad]_vars

\* the last step loaded a user from the stored snapshot
JustLoaded == IsRead(ev) /\ ev.io /\ ev.ret.kind = "user" /\ CanParse(disk)

\* C10 (as claimed): the loaded user has objectId equal to the snapshot's
\* _id when _id is present (overriding a differing objectId) and sessionToken
\* equal to _sessionToken when that is present, carries neither legacy key,
\* has className '_User' when the snapshot has none, and has all other
\* fields as stored.
C10_TranslatesWhenPresent ==
    JustLoaded =>
        LET s == parse(disk)
            u == ev.ret
        IN  /\ u.id = (IF s._id # Undefined THEN s._id ELSE s.objectId)
            /\ u.attributes.sessionToken =
                  (IF s._sessionToken # Undefined THEN s._sessionToken
                                                  ELSE s.sessionToken)
            /\ u.attributes._id = Undefined
            /\ u.attributes._sessionToken = Undefined
            /\ u.className =
                  (IF s.className = Undefined THEN "_User" ELSE s.className)
            /\ u.attributes.username = s.username

\* C10 (amended): the same with "present and not empty" for "present": an
\* empty-string _id or _sessionToken translates nothing and stays on the
\* loaded user as stored, a non-empty one is translated and removed, and a
\* missing or empty className becomes '_User'.
C10_TranslatesWhenTruthy ==
    JustLoaded =>
        LET s == parse(disk)
            u == ev.ret
        IN  /\ u.id = (IF Truthy(s._id) THEN s._id ELSE s.objectId)
            /\ u.attributes.sessionToken =
                  (IF Truthy(s._sessionToken) THEN s._sessionToken
                                              ELSE s.sessionToken)
            /\ u.attributes._id = (IF Truthy(s._id) THEN Undefined ELSE s._id)
            /\ u.attributes._sessionToken =
                  (IF Truthy(s._sessionToken) THEN Undefined
                                              ELSE s._sessionToken)
            /\ u.className =
                  (IF Truthy(s.className) THEN s.className ELSE "_User")
            /\ u.attributes.username = s.username

\* C10 witness: a snapshot with both legacy keys and a differing objectId
\* has been loaded: the user has the id of _id and the token of
\* _sessionToken.
C10_Witness ==
    /\ JustLoaded
    /\ Truthy(parse(disk)._id)
    /\ Truthy(parse(disk).objectId)
    /\ parse(disk).objectId # parse(disk)._id
    /\ Truthy(parse(disk)._sessionToken)
    /\ parse(disk).className = Undefined
    /\ ev.ret.id = parse(disk)._id
    /\ ev.ret.attributes.sessionToken = parse(disk)._sessionToken

(***************************************************************************)
(* Action creators                                                         *)
(***************************************************************************)
MaxArgs == 3

initializeState(arguments) ==
    [type |-> "INITIALIZE_STATE", payload |-> arguments]

removeState(arguments) ==
    [type |-> "REMOVE_STATE", payload |-> arguments]

setServerData(arguments) ==
    [type |-> "SET_SERVER_DATA", payload |-> arguments]

setPendingOp(arguments) ==
    [type |-> "SET_PENDING_OP", payload |-> arguments]

pushPendingState(arguments) ==
    [type |-> "PUSH_PENDING_STATE", payload |-> arguments]

popPendingState(arguments) ==
    [type |-> "POP_PENDING_STATE", payload |-> arguments]

mergeFirstPendingState(arguments) ==
    [type |-> "MERGE_FIRST_PENDING_STATE", payload |-> arguments]

\* a creator that tags the close of a save as a plain server-data write
commitServerChanges_AsSetServerData(arguments) ==
    [type |-> "SET_SERVER_DATA", payload |-> arguments]

commitServerChanges(arguments) ==
    [type |-> "COMMIT_SERVER_CHANGES", payload |-> arguments]

enqueueTask(arguments) ==
    [type |-> "ENQUEUE_TASK", payload |-> arguments]

_clearAllState(arguments) ==
    [type |-> "CLEAR_ALL_STATE", payload |-> arguments]

\* the exported object: what each creator returns for the same arguments
Actions(arguments) ==
    ("initializeState" :> initializeState(arguments)) @@
    ("removeState" :> removeState(arguments)) @@
    ("setServerData" :> setServerData(arguments)) @@
    ("setPendingOp" :> setPendingOp(arguments)) @@
    ("pushPendingState" :> pushPendingState(arguments)) @@
    ("popPendingState" :> popPendingState(arguments)) @@
    ("mergeFirstPendingState" :> mergeFirstPendingState(arguments)) @@
    ("commitServerChanges" :> commitServerChanges(arguments)) @@
    ("enqueueTask" :> enqueueTask(arguments)) @@
    ("_clearAllState" :> _clearAllState(arguments))

Creators == DOMAIN Actions(<<>>)

\* the ten tags of the action vocabulary
ActionTypes ==
    {"INITIALIZE_STATE", "REMOVE_STATE", "SET_SERVER_DATA", "SET_PENDING_OP",
     "PUSH_PENDING_STATE", "POP_PENDING_STATE", "MERGE_FIRST_PENDING_STATE",
     "COMMIT_SERVER_CHANGES", "ENQUEUE_TASK", "CLEAR_ALL_STATE"}

\* what a caller may pass: up to MaxArgs values, in some order
ArgValues == {"Item", "A", "name"}
Arguments == UNION { [1..n -> ArgValues] : n \in 0..MaxArgs }

\* a call of one creator: nothing is dispatched, the action is returned
Call(creator, arguments) ==
    /\ ev' = [op |-> creator, arguments |-> arguments,
              ret |-> Actions(arguments)[creator]]
    /\ UNCHANGED <<canUseCurrentUser, currentUserCache,
                   currentUserCacheMatchesDisk, storageAsync, disk, origin, storeQ,
                   net, loggedOut, others>>

CallInitializeState ==
    \E arguments \in Arguments : Call("initializeState", arguments)
CallRemoveState ==
    \E arguments \in Arguments : Call("removeState", arguments)
CallSetServerData ==
    \E arguments \in Arguments : Call("setServerData", arguments)
CallSetPendingOp ==
    \E arguments \in Arguments : Call("setPendingOp", arguments)
CallPushPendingState ==
    \E arguments \in Arguments : Call("pushPendingState", arguments)
CallPopPendingState ==
    \E arguments \in Arguments : Call("popPendingState", arguments)
CallMergeFirstPendingState ==
    \E arguments \in Arguments : Call("mergeFirstPendingState", arguments)
CallCommitServerChanges ==
    \E arguments \in Arguments : Call("commitServerChanges", arguments)
CallEnqueueTask ==
    \E arguments \in Arguments : Call("enqueueTask", arguments)
CallClearAllState ==
    \E arguments \in Arguments : Call("_clearAllState", arguments)

NextActions ==
    \/ CallInitializeState
    \/ CallRemoveState
    \/ CallSetServerData
    \/ CallSetPendingOp
    \/ CallPushPendingState
    \/ CallPopPendingState
    \/ CallMergeFirstPendingState
    \/ CallCommitServerChanges
    \/ CallEnqueueTask
    \/ CallClearAllState

\* the creators do not read the state: one initial state is enough
InitActions ==
    /\ Init
    /\ canUseCurrentUser
    /\ ~storageAsync
    /\ disk = Null

SpecActions == InitActions /\ [][NextActions]_vars

\* C12: every creator returns an action whose tag is one of the ten, no other
\* creator returns that tag, the ten creators together produce exactly the
\* ten tags, and the payload is the caller's arguments, unchanged and in order
C12_TagsAndPayload ==
    ev.op \in Creators =>
        /\ ev.ret.type \in ActionTypes
        /\ ev.ret.payload = ev.arguments
        /\ \A other \in Creators \ {ev.op} :
               Actions(ev.arguments)[other].type # ev.ret.type
        /\ { Actions(ev.arguments)[c].type : c \in Creators } = ActionTypes

\* commitServerChanges was called with three arguments
C12_Witness ==
    /\ ev.op = "commitServerChanges"
    /\ Len(ev.arguments) = 3
    /\ ev.arguments[1] # ev.arguments[2]
    /\ ev.ret = [type |-> "COMMIT_SERVER_CHANGES", payload |-> ev.arguments]

(***************************************************************************)
(* Object State Store                                                      *)
(***************************************************************************)
MaxSets == 3
MaxValue == 2

\* identities (typeName, id), attribute names and the values servers send
Identities == {<<"Item", "A">>, <<"Item", "B">>}
Attributes == {"name"}
ServerValues == {1, 2}

\* the value of setServerData that deletes a key; legal values are naturals
Remove == -1

\* operations: apply(previous) and mergeWith(previous) are theirs
SetOp(value) == [op |-> "Set", value |-> value]
IncrementOp(amount) == [op |-> "Increment", amount |-> amount]
NoOp == [op |-> "undefined"]
Operations == {SetOp(1), IncrementOp(1)}

NoAttributes == [attr \in {} |-> attr]

\* Operation.apply on the value that data holds at attr, 0 when it has none
apply(op, data, attr) ==
    IF op.op = "Set"
    THEN op.value
    ELSE (IF attr \in DOMAIN data THEN data[attr] ELSE 0) + op.amount

\* Operation.mergeWith: op is the newer operation, previous the older
mergeWith(op, previous) ==
    IF op.op = "Set"
    THEN op
    ELSE IF previous.op = "Set"
    THEN SetOp(previous.value + op.amount)
    ELSE IncrementOp(previous.amount + op.amount)

EmptyState == [serverData |-> NoAttributes, pendingOps |-> <<NoAttributes>>]

Result(table, ret) == [table |-> table, ret |-> ret]

\* the table with identity initialized, unchanged when it already is
Initialized(table, identity) ==
    IF identity \in DOMAIN table
    THEN table
    ELSE [i \in DOMAIN table \cup {identity} |->
            IF i = identity THEN EmptyState ELSE table[i]]

Put(table, identity, state) ==
    [i \in DOMAIN table \cup {identity} |->
        IF i = identity THEN state ELSE table[i]]

reduceInitializeState(table, identity) ==
    Result(Initialized(table, identity), Initialized(table, identity)[identity])

reduceRemoveState(table, identity) ==
    IF identity \in DOMAIN table
    THEN Result([i \in DOMAIN table \ {identity} |-> table[i]],
                table[identity])
    ELSE Result(table, Null)

\* shallow merge, last write wins; Remove deletes the key
MergeData(data, attrs) ==
    [a \in (DOMAIN data \cup DOMAIN attrs)
            \ {r \in DOMAIN attrs : attrs[r] = Remove} |->
        IF a \in DOMAIN attrs THEN attrs[a] ELSE data[a]]

\* a server write that discards the pending edits of the attributes it sets
reduceSetServerData_DiscardsEdits(table, identity, attrs) ==
    LET state == Initialized(table, identity)[identity]
        next == [state EXCEPT
                    !.serverData = MergeData(@, attrs),
                    !.pendingOps = [n \in DOMAIN @ |->
                        [a \in DOMAIN @[n] \ DOMAIN attrs |-> @[n][a]]]]
    IN  Result(Put(table, identity, next), next)

reduceSetServerData(table, identity, attrs) ==
    LET state == Initialized(table, identity)[identity]
        next == [state EXCEPT !.serverData = MergeData(@, attrs)]
    IN  Result(Put(table, identity, next), next)

\* write op at attr in the top (newest) set, delete the key when undefined
WriteOp(sets, attr, op) ==
    [sets EXCEPT ![Len(sets)] =
        IF op = NoOp
        THEN [a \in DOMAIN @ \ {attr} |-> @[a]]
        ELSE [a \in DOMAIN @ \cup {attr} |-> IF a = attr THEN op ELSE @[a]]]

reduceSetPendingOp(table, identity, attr, op) ==
    LET state == Initialized(table, identity)[identity]
        next == [state EXCEPT !.pendingOps = WriteOp(@, attr, op)]
    IN  Result(Put(table, identity, next), next)

reducePushPendingState(table, identity) ==
    LET state == Initialized(table, identity)[identity]
        next == [state EXCEPT !.pendingOps = Append(@, NoAttributes)]
    IN  Result(Put(table, identity, next), next)

\* a pop that leaves the stack empty when it held one set
AfterPop_Empty(sets) == Tail(sets)

\* the stack without its oldest set, one empty set when that was the only one
AfterPop(sets) == IF Len(sets) > 1 THEN Tail(sets) ELSE <<NoAttributes>>

reducePopPendingState(table, identity) ==
    LET state == Initialized(table, identity)[identity]
        next == [state EXCEPT !.pendingOps = AfterPop(@)]
    IN  Result(Put(table, identity, next), Head(state.pendingOps))

\* a merge in which the older operation replaces the newer one
MergeSets_OlderWins(first, next) ==
    [a \in DOMAIN first \cup DOMAIN next |->
        IF a \in DOMAIN first THEN first[a] ELSE next[a]]

\* each attribute of first composed into next, the newer operation on top
MergeSets(first, next) ==
    [a \in DOMAIN first \cup DOMAIN next |->
        IF a \in DOMAIN first /\ a \in DOMAIN next
        THEN mergeWith(next[a], first[a])
        ELSE IF a \in DOMAIN first THEN first[a] ELSE next[a]]

getPendingOps(table, identity) ==
    IF identity \in DOMAIN table
    THEN table[identity].pendingOps
    ELSE <<NoAttributes>>

getServerData(table, identity) ==
    IF identity \in DOMAIN table
    THEN table[identity].serverData
    ELSE NoAttributes

reduceMergeFirstPendingState(table, identity) ==
    LET sets == getPendingOps(table, identity)
    IN  IF Len(sets) < 2
        THEN Result(table, Failure("fatal"))
        ELSE LET merged == <<MergeSets(sets[1], sets[2])>>
                               \o SubSeq(sets, 3, Len(sets))
                 next == [table[identity] EXCEPT !.pendingOps = merged]
             IN  Result(Put(table, identity, next), next)

\* one set applied to data, attribute by attribute
ApplySet(data, set) ==
    [a \in DOMAIN data \cup DOMAIN set |->
        IF a \in DOMAIN set THEN apply(set[a], data, a) ELSE data[a]]

RECURSIVE ApplyAll(_, _)
ApplyAll(data, sets) ==
    IF sets = <<>>
    THEN data
    ELSE ApplyAll(ApplySet(data, Head(sets)), Tail(sets))

\* serverData with every pending set applied, oldest first
estimateAttributes(table, identity) ==
    ApplyAll(getServerData(table, identity), getPendingOps(table, identity))

\* the reducing function: the next table and what the caller gets back
reduce(table, a) ==
    CASE a.type = "INITIALIZE_STATE" ->
            reduceInitializeState(table, a.payload[1])
      [] a.type = "REMOVE_STATE" ->
            reduceRemoveState(table, a.payload[1])
      [] a.type = "SET_SERVER_DATA" ->
            reduceSetServerData(table, a.payload[1], a.payload[2])
      [] a.type = "SET_PENDING_OP" ->
            reduceSetPendingOp(table, a.payload[1], a.payload[2],
                               a.payload[3])
      [] a.type = "PUSH_PENDING_STATE" ->
            reducePushPendingState(table, a.payload[1])
      [] a.type = "POP_PENDING_STATE" ->
            reducePopPendingState(table, a.payload[1])
      [] a.type = "MERGE_FIRST_PENDING_STATE" ->
            reduceMergeFirstPendingState(table, a.payload[1])
      [] a.type = "COMMIT_SERVER_CHANGES" ->
            reduceSetServerData(table, a.payload[1], a.payload[2])
      [] a.type = "CLEAR_ALL_STATE" ->
            Result(EmptyTable, Null)
      [] OTHER -> Result(table, Null)

\* Store.dispatch(a): the reducing function applied in one step; the
\* closure variable behind currentUserCache is not part of what it owns
dispatch(a) ==
    /\ objectState' = reduce(objectState, a).table
    /\ action' = a
    /\ ev' = Event("dispatch", Null, reduce(objectState, a).ret, FALSE)
    /\ UNCHANGED <<canUseCurrentUser, currentUserCache,
                   currentUserCacheMatchesDisk, storageAsync, disk, origin, storeQ,
                   net, loggedOut, taskQ, applied, rest, calls, users>>

\* the attrs of a server response: values, or Remove, for some attributes
ServerAttrs ==
    UNION { [names -> ServerValues \cup {Remove}] : names \in SUBSET Attributes }

DispatchInitializeState ==
    \E identity \in Identities : dispatch(initializeState(<<identity>>))

DispatchRemoveState ==
    \E identity \in Identities : dispatch(removeState(<<identity>>))

DispatchSetServerData ==
    \E identity \in Identities, attrs \in ServerAttrs :
        dispatch(setServerData(<<identity, attrs>>))

DispatchSetPendingOp ==
    \E identity \in Identities, attr \in Attributes,
       op \in Operations \cup {NoOp} :
        dispatch(setPendingOp(<<identity, attr, op>>))

\* how many pending sets the table holds, over the given identities
RECURSIVE TotalSets(_, _)
TotalSets(table, identities) ==
    IF identities = {}
    THEN 0
    ELSE LET identity == CHOOSE i \in identities : TRUE
         IN  Len(getPendingOps(table, identity))
                 + TotalSets(table, identities \ {identity})

DispatchPushPendingState ==
    \E identity \in Identities :
        /\ TotalSets(reducePushPendingState(objectState, identity).table,
                     Identities) <= MaxSets
        /\ dispatch(pushPendingState(<<identity>>))

DispatchPopPendingState ==
    \E identity \in Identities : dispatch(popPendingState(<<identity>>))

\* the number an operation carries
Magnitude(op) == IF op.op = "Set" THEN op.value ELSE op.amount

\* callers compose operations whose numbers stay within MaxValue
WithinMaxValue(table) ==
    \A identity \in DOMAIN table :
        \A n \in 1..Len(table[identity].pendingOps) :
            \A attr \in DOMAIN table[identity].pendingOps[n] :
                Magnitude(table[identity].pendingOps[n][attr]) <= MaxValue

DispatchMergeFirstPendingState ==
    \E identity \in Identities :
        /\ WithinMaxValue(reduceMergeFirstPendingState(objectState,
                                                       identity).table)
        /\ dispatch(mergeFirstPendingState(<<identity>>))

DispatchCommitServerChanges ==
    \E identity \in Identities, attrs \in ServerAttrs :
        dispatch(commitServerChanges(<<identity, attrs>>))

DispatchClearAllState == dispatch(_clearAllState(<<>>))

NextStore ==
    \/ DispatchInitializeState
    \/ DispatchRemoveState
    \/ DispatchSetServerData
    \/ DispatchSetPendingOp
    \/ DispatchPushPendingState
    \/ DispatchPopPendingState
    \/ DispatchMergeFirstPendingState
    \/ DispatchCommitServerChanges
    \/ DispatchClearAllState

SpecStore == InitActions /\ [][NextStore]_vars

\* the store next to the current-user cache, on a synchronous Storage
NextClear ==
    \/ DispatchInitializeState
    \/ DispatchRemoveState
    \/ DispatchSetServerData
    \/ DispatchClearAllState
    \/ \E user \in Callers : setCurrentUser(user)
    \/ current
    \/ _clearCache

SpecClear == InitActions /\ [][NextClear]_vars

\* C11: once the action of _clearAllState is dispatched, no identity has
\* state and the memory cache that currentUser() reads is empty
C11_ClearsTableAndCache ==
    [][(ev'.op = "dispatch" /\ action'.type = "CLEAR_ALL_STATE")
        => /\ objectState' = EmptyTable
           /\ currentUserCache' = Null]_vars

\* a step that dispatches an action of the given type
Dispatches(type) == ev'.op = "dispatch" /\ action'.type = type

\* C13: pendingOps of an identity that has state never has length 0, and
\* popPendingState on a stack of one set returns that set and leaves one
\* empty set behind
C13_NeverEmpty ==
    /\ [](\A identity \in DOMAIN objectState :
            Len(objectState[identity].pendingOps) >= 1)
    /\ [][Dispatches("POP_PENDING_STATE") =>
            LET identity == action'.payload[1]
                sets == getPendingOps(objectState, identity)
            IN  Len(sets) = 1 =>
                    /\ ev'.ret = sets[1]
                    /\ objectState'[identity].pendingOps = <<NoAttributes>>]_vars

\* the only set of A, holding an edit, was popped: B holds the other sets
C13_Witness ==
    /\ ev.op = "dispatch"
    /\ action = popPendingState(<<(<<"Item", "A">>)>>)
    /\ ev.ret = [name |-> SetOp(1)]
    /\ getPendingOps(objectState, <<"Item", "A">>) = <<NoAttributes>>
    /\ Len(getPendingOps(objectState, <<"Item", "B">>)) = MaxSets - 1

\* C15: setServerData and commitServerChanges leave pendingOps as they are:
\* getServerData returns the values written and estimateAttributes is the
\* old pending operations applied on top of the new server data
C15_KeepsPendingOps ==
    [][(Dispatches("SET_SERVER_DATA") \/ Dispatches("COMMIT_SERVER_CHANGES"))
        => LET identity == action'.payload[1]
               attrs == action'.payload[2]
               sets == getPendingOps(objectState, identity)
           IN  /\ \A i \in Identities :
                      getPendingOps(objectState', i)
                          = getPendingOps(objectState, i)
               /\ \A a \in DOMAIN attrs :
                      IF attrs[a] = Remove
                      THEN a \notin DOMAIN getServerData(objectState', identity)
                      ELSE getServerData(objectState', identity)[a] = attrs[a]
               /\ estimateAttributes(objectState', identity)
                      = ApplyAll(getServerData(objectState', identity), sets)
       ]_vars

\* the server value 2 was committed under a pending increment of name
C15_Witness ==
    /\ ev.op = "dispatch"
    /\ action = commitServerChanges(<<(<<"Item", "A">>), [name |-> 2]>>)
    /\ getServerData(objectState, <<"Item", "A">>) = [name |-> 2]
    /\ getPendingOps(objectState, <<"Item", "A">>) = <<[name |-> IncrementOp(1)]>>
    /\ estimateAttributes(objectState, <<"Item", "A">>) = [name |-> 3]

\* C16: mergeFirstPendingState with fewer than two sets fails fatally and
\* changes nothing; with two or more the stack shrinks by one, index 0 is
\* composed into index 1 and estimateAttributes stays as it was
C16_MergeFirst ==
    [][Dispatches("MERGE_FIRST_PENDING_STATE") =>
        LET identity == action'.payload[1]
            sets == getPendingOps(objectState, identity)
        IN  IF Len(sets) < 2
            THEN /\ ev'.ret = Failure("fatal")
                 /\ objectState' = objectState
            ELSE /\ ev'.ret # Failure("fatal")
                 /\ Len(getPendingOps(objectState', identity)) = Len(sets) - 1
                 /\ \A a \in DOMAIN sets[1] \cap DOMAIN sets[2] :
                        getPendingOps(objectState', identity)[1][a]
                            = mergeWith(sets[2][a], sets[1][a])
                 /\ getServerData(objectState', identity)
                        = getServerData(objectState, identity)
                 /\ estimateAttributes(objectState', identity)
                        = estimateAttributes(objectState, identity)]_vars

\* an increment was merged with the older increment under it
C16_Witness ==
    /\ ev.op = "dispatch"
    /\ action = mergeFirstPendingState(<<(<<"Item", "A">>)>>)
    /\ getPendingOps(objectState, <<"Item", "A">>) = <<[name |-> IncrementOp(2)]>>

(***************************************************************************)
(* Per-Object Task Queue                                                   *)
(***************************************************************************)
MaxTasks == 2

\* the tasks of identity whose effect has not been applied, oldest first
Queue(queues, identity) ==
    IF identity \in DOMAIN queues THEN queues[identity] ELSE <<>>

\* the effects applied so far for identity, in the order they were applied
AppliedOf(log, identity) == SelectSeq(log, LAMBDA e : e.identity = identity)

\* a task: the n-th enqueued for its identity, and the state of its work
Task(n, work) == [n |-> n, work |-> work]

\* the effect of a task, and what its caller is told
Effect(identity, task, reported) ==
    [identity |-> identity, n |-> task.n, work |-> task.work,
     reported |-> reported]

\* apply the effects of the settled tasks at the head of the queue, in
\* order, each reported to its caller with its own outcome, and stop at the
\* first task whose work is pending
RECURSIVE Drain(_, _, _)
Drain(identity, queue, log) ==
    IF queue = <<>> \/ Head(queue).work = "pending"
    THEN [queue |-> queue, log |-> log]
    ELSE Drain(identity, Tail(queue),
             Append(log, Effect(identity, Head(queue), Head(queue).work)))

\* a queue that applies the effect of a task as soon as its work completes
Settled_Unordered(identity, queue, k, log) ==
    [queue |-> [j \in 1..(Len(queue) - 1) |->
                    IF j < k THEN queue[j] ELSE queue[j + 1]],
     log |-> Append(log, Effect(identity, queue[k], queue[k].work))]

\* the k-th task of the queue has completed: its effect waits for the
\* effects of the tasks before it
Settled(identity, queue, k, log) == Drain(identity, queue, log)

\* ENQUEUE_TASK: the task is appended to the queue of its identity
DispatchEnqueueTask ==
    \E identity \in Identities :
        LET queue == Queue(taskQ, identity)
            n == Len(AppliedOf(applied, identity)) + Len(queue) + 1
        IN  /\ n <= MaxTasks
            /\ action' = enqueueTask(<<identity, n>>)
            /\ taskQ' = Put(taskQ, identity, Append(queue, Task(n, "pending")))
            /\ ev' = Event("dispatch", Null, Pending, FALSE)
            /\ UNCHANGED <<canUseCurrentUser, currentUserCache,
                           currentUserCacheMatchesDisk, storageAsync, disk, origin,
                           storeQ, net, loggedOut, objectState, applied, rest,
                           calls, users>>

\* the work of one task completes, in any order, with the given outcome
TaskSettle(outcome) ==
    \E identity \in DOMAIN taskQ :
        \E k \in 1..Len(taskQ[identity]) :
            /\ taskQ[identity][k].work = "pending"
            /\ LET settled == [taskQ[identity] EXCEPT ![k].work = outcome]
                   after == Settled(identity, settled, k, applied)
               IN  /\ taskQ' = Put(taskQ, identity, after.queue)
                   /\ applied' = after.log
            /\ ev' = Event("task." \o outcome, Null, Null, FALSE)
            /\ UNCHANGED <<canUseCurrentUser, currentUserCache,
                           currentUserCacheMatchesDisk, storageAsync, disk, origin,
                           storeQ, net, loggedOut, objectState, action, rest,
                           calls, users>>

TaskResolve == TaskSettle("resolved")

TaskReject == TaskSettle("rejected")

NextQueue ==
    \/ DispatchEnqueueTask
    \/ TaskResolve
    \/ TaskReject

SpecQueue == InitActions /\ [][NextQueue]_vars

\* C14: for each identity the effects are applied in enqueue order, a task
\* whose work has completed waits only behind an earlier pending task of its
\* own identity, and every caller is told the outcome of its own work
C14_TaskOrder ==
    \A identity \in Identities :
        LET done == AppliedOf(applied, identity)
            queue == Queue(taskQ, identity)
        IN  /\ \A k \in 1..Len(done) : done[k].n = k
            /\ \A k \in 1..Len(queue) : queue[k].n = Len(done) + k
            /\ \A k \in 1..Len(done) : done[k].reported = done[k].work
            /\ queue # <<>> => queue[1].work = "pending"

\* the second task of A completed first and waits; the first task of B
\* failed, and the second task of B was applied after it
C14_Witness ==
    /\ Queue(taskQ, <<"Item", "A">>)
           = <<Task(1, "pending"), Task(2, "resolved")>>
    /\ AppliedOf(applied, <<"Item", "B">>)
           = <<Effect(<<"Item", "B">>, Task(1, "rejected"), "rejected"),
               Effect(<<"Item", "B">>, Task(2, "resolved"), "resolved")>>

(***************************************************************************)
(* Operations of a user that go to the server                              *)
(***************************************************************************)
MaxRequests == 1
MaxCalls == 1

\* a REST request in flight for the operation op of user, called with attrs
Request(op, user, attrs) == [op |-> op, user |-> user, attrs |-> attrs]

\* the attrs of a call that passes none
NoAttrs == [username |-> Undefined, password |-> Undefined]

\* the record of a step of such an operation; wrote tells whether the step
\* handed the user to Storage.setItemAsync
UserEvent(op, user, ret, io, wrote) ==
    [op |-> op, user |-> user, ret |-> ret, io |-> io, wrote |-> wrote]

\* the record of the call of such an operation, with the attrs it was given
CallEvent(op, user, attrs, ret) ==
    [op |-> op, user |-> user, attrs |-> attrs, ret |-> ret, io |-> FALSE,
     wrote |-> FALSE]

\* the id and the session token of a user the server has created
ServerId(user) == "id:" \o user.ref
NewSessionToken == "r:tok"

\* the user object once the response of a save is merged into it
AfterSave(user) ==
    IF user.id = Undefined
    THEN [user EXCEPT !.id = ServerId(user),
                      !.attributes.sessionToken = NewSessionToken]
    ELSE user

\* a ParseUser.current() that reads the cache though its use is disabled
currentResult_IgnoresFlag(canUse, cache, matchesDisk, async, item) ==
    currentUserResult(cache, matchesDisk, async, item)

\* ParseUser.current() as a function of what it reads
currentResult(canUse, cache, matchesDisk, async, item) ==
    IF ~canUse
    THEN [cache |-> cache, matchesDisk |-> matchesDisk, ret |-> Null,
          io |-> FALSE, set |-> FALSE]
    ELSE currentUserResult(cache, matchesDisk, async, item)

\* the action dispatched last once the object `before` has become `after`:
\* a user action holds the object it was dispatched with
AliasAction(a, before, after) ==
    IF a.type = "SET_USER"
    THEN UserSet(Alias(a.payload[1], before, after))
    ELSE a

\* what the read r of the current user, made in the callback of a request
\* that has turned `before` into `after`, does to the memory cache
ReadInto(r, before, after) ==
    IF r.set
    THEN currentUserCacheSet(r.cache)
    ELSE /\ currentUserCache' = r.cache
         /\ action' = AliasAction(action, before, after)

\* an isCurrent() that asks for the same object
isCurrent_SameObject(user, found) == found = user

\* user.isCurrent(), given what ParseUser.current() returned
isCurrent(user, found) == found.kind = "user" /\ found.id = user.id

\* DefaultController.updateUserOnDisk(user), called by the step named op,
\* which finds the Storage queue q
updateUserOnDisk(user, op, io, q) ==
    IF storageAsync
    THEN /\ Len(q) < MaxPending
         /\ storeQ' = Append(q,
                 StoreRequest("setItem", "updateUserOnDisk", user,
                              UserOnDisk(user), Undefined, FALSE))
         /\ ev' = UserEvent(op, user, Pending, io, TRUE)
         /\ UNCHANGED <<disk, origin>>
    ELSE /\ disk' = UserOnDisk(user)
         /\ origin' = NoOrigin
         /\ ev' = UserEvent(op, user, user, io, TRUE)
         /\ storeQ' = q

\* the callback of save and of fetch once request i has succeeded and the
\* response has made the user `after`
savedThen(i, op, after) ==
    LET before == rest[i].user
        r == currentResult(canUseCurrentUser,
                           Alias(currentUserCache, before, after),
                           currentUserCacheMatchesDisk, storageAsync, disk)
        q == AliasWrites(storeQ, before, after)
    IN  /\ rest' = AliasAll(Without(rest, i), before, after)
        /\ ReadInto(r, before, after)
        /\ Made(currentUserCache') => HasRoom
        /\ users' = Keep(AliasHeld(users, before, after), currentUserCache')
        /\ currentUserCacheMatchesDisk' = r.matchesDisk
        /\ IF r.ret.kind = "error"
           THEN /\ ev' = UserEvent(op, after, r.ret, r.io, FALSE)
                /\ storeQ' = q
                /\ UNCHANGED <<disk, origin>>
           ELSE IF isCurrent(after, r.ret)
           THEN updateUserOnDisk(after, op, r.io, q)
           ELSE /\ ev' = UserEvent(op, after, after, r.io, FALSE)
                /\ storeQ' = q
                /\ UNCHANGED <<disk, origin>>
        /\ UNCHANGED <<canUseCurrentUser, storageAsync, net, loggedOut,
                       tables>>

\* a call that only issues its request
Issue(op, user, attrs) ==
    /\ Len(rest) < MaxRequests
    /\ calls < MaxCalls
    /\ calls' = calls + 1
    /\ rest' = Append(rest, Request(op, user, attrs))
    /\ ev' = CallEvent(op, user, attrs, Pending)
    /\ UNCHANGED <<canUseCurrentUser, currentUserCache,
                   currentUserCacheMatchesDisk, storageAsync, disk, origin, storeQ,
                   net, loggedOut, objectState, action, taskQ, applied,
                   users>>

\* user.save()
save == \E user \in Callers : Issue("save", user, NoAttrs)

\* user.fetch()
fetch == \E user \in Callers : Issue("fetch", user, NoAttrs)

\* the server has saved the user
saveResolved ==
    \E i \in 1..Len(rest) :
        /\ rest[i].op = "save"
        /\ savedThen(i, "save.resolved", AfterSave(rest[i].user))

\* the server has sent the user, which it knows by its id
fetchResolved ==
    \E i \in 1..Len(rest) :
        /\ rest[i].op = "fetch"
        /\ rest[i].user.id # Undefined
        /\ savedThen(i, "fetch.resolved", rest[i].user)

\* the id under which the Object State of a user is kept
_getId(user) == IF user.id = Undefined THEN "local:" \o user.ref ELSE user.id

IdentityOf(user) == <<"_User", _getId(user)>>

\* user.get(attr): the estimated attribute, undefined when there is none
get(table, user, attr) ==
    LET estimated == estimateAttributes(table, IdentityOf(user))
    IN  IF attr \in DOMAIN estimated
        THEN estimated[attr]
        ELSE IF attr = "username"
        THEN user.attributes.username
        ELSE Undefined

\* the attrs callers pass to signUp
SignUpAttrs == [username : {Undefined, ""}, password : {Undefined, "", "pw"}]

\* the user object once attrs are set on it and the save has succeeded
Saved(table, user, attrs) ==
    [AfterSave(user) EXCEPT !.attributes.username =
        IF attrs.username # Undefined
        THEN attrs.username
        ELSE get(table, user, "username")]

\* a call that fails before it issues any request
Fail(op, user, attrs, e) ==
    /\ ev' = CallEvent(op, user, attrs, Failure(e))
    /\ UNCHANGED <<canUseCurrentUser, currentUserCache,
                   currentUserCacheMatchesDisk, storageAsync, disk, origin, storeQ,
                   net, loggedOut, others>>

\* (attrs && attrs[attr]) || user.get(attr)
Credential(table, user, attrs, attr) ==
    IF Truthy(attrs[attr]) THEN attrs[attr] ELSE get(table, user, attr)

\* a validation that lets an empty password through
Rejected_NameOnly(username, password) == ~Truthy(username)

\* !username || !username.length, then the same for password
Rejected(username, password) == ~Truthy(username) \/ ~Truthy(password)

\* user.signUp(attrs): DefaultController.signUp up to user.save(attrs)
signUp ==
    \E user \in Callers, attrs \in SignUpAttrs :
        IF Rejected(Credential(objectState, user, attrs, "username"),
                    Credential(objectState, user, attrs, "password"))
        THEN Fail("signUp", user, attrs, "OTHER_CAUSE")
        ELSE Issue("signUp", user, attrs)

\* user._linkWith: DefaultController.linkWith up to user.save({ authData })
linkWith == \E user \in Callers : Issue("linkWith", user, NoAttrs)

\* the callbacks that run once the save of signUp or linkWith has
\* succeeded: the one of save (ParseUser.js:425-430), then the one that makes
\* the user current (857-864, 971-976), which waits for the write of the first
savedThenSetCurrent(i, op) ==
    LET before == rest[i].user
        after == Saved(objectState, before, rest[i].attrs)
        r == currentResult(canUseCurrentUser,
                           Alias(currentUserCache, before, after),
                           currentUserCacheMatchesDisk, storageAsync, disk)
        q == AliasWrites(storeQ, before, after)
    IN  /\ rest' = AliasAll(Without(rest, i), before, after)
        /\ currentUserCacheMatchesDisk' = r.matchesDisk
        /\ IF r.ret.kind = "error"
           THEN /\ ev' = UserEvent(op \o ".resolved", after, r.ret, r.io,
                                   FALSE)
                /\ ReadInto(r, before, after)
                /\ storeQ' = q
                /\ UNCHANGED <<disk, origin, net, loggedOut>>
           ELSE IF isCurrent(after, r.ret) /\ storageAsync
           THEN /\ Len(q) < MaxPending
                /\ storeQ' = Append(q,
                        StoreRequest("setItem", op, after, UserOnDisk(after),
                                     Undefined, FALSE))
                /\ ev' = UserEvent(op \o ".resolved", after, Pending, r.io,
                                   TRUE)
                /\ ReadInto(r, before, after)
                /\ UNCHANGED <<disk, origin, net, loggedOut>>
           ELSE IF canUseCurrentUser
           THEN SetCurrentOn(after, op \o ".resolved", q, disk, origin,
                             r.io)
           ELSE /\ ev' = UserEvent(op \o ".resolved", after, after, r.io,
                                   FALSE)
                /\ ReadInto(r, before, after)
                /\ storeQ' = q
                /\ UNCHANGED <<disk, origin, net, loggedOut>>
        /\ Made(currentUserCache') => HasRoom
        /\ users' = Keep(AliasHeld(users, before, after), currentUserCache')
        /\ UNCHANGED <<canUseCurrentUser, storageAsync, tables>>

signUpResolved ==
    \E i \in 1..Len(rest) :
        rest[i].op = "signUp" /\ savedThenSetCurrent(i, "signUp")

linkWithResolved ==
    \E i \in 1..Len(rest) :
        rest[i].op = "linkWith" /\ savedThenSetCurrent(i, "linkWith")

\* the user objects that have no id yet: those a caller has made with
\* new ParseUser() and has not saved
NewUsers == { user \in Held : user.id = Undefined }

\* the sets of attributes a caller edits on a new user in one set() call
Edits == {{"username", "password"}, {"username", "password", "nickname"}}

\* the table after object.set of the attributes in names: one setPendingOp
\* is dispatched for each
RECURSIVE AfterSet(_, _, _)
AfterSet(table, identity, names) ==
    IF names = {}
    THEN table
    ELSE LET attr == CHOOSE a \in names : TRUE
         IN  AfterSet(reduce(table,
                             setPendingOp(<<identity, attr, SetOp("x")>>)).table,
                      identity, names \ {attr})

\* user.set(attrs) on a new user that has no edits yet
set ==
    \E user \in NewUsers, names \in Edits :
        /\ IdentityOf(user) \notin DOMAIN objectState
        /\ objectState' = AfterSet(objectState, IdentityOf(user), names)
        /\ action' = setPendingOp(<<IdentityOf(user),
                                    CHOOSE a \in names : TRUE, SetOp("x")>>)
        /\ ev' = UserEvent("set", user, user, FALSE, FALSE)
        /\ UNCHANGED <<canUseCurrentUser, currentUserCache,
                       currentUserCacheMatchesDisk, storageAsync, disk, origin,
                       storeQ, net, loggedOut, taskQ, applied, rest, calls,
                       users>>

\* the objectId of the response to a login: the id of the account, which a
\* user that has an id carries already
AccountId(user) == IF user.id = Undefined THEN ServerId(user) ELSE user.id

\* user.logIn(): DefaultController.logIn up to the request, which carries
\* user.get('username') and user.get('password')
logIn ==
    \E user \in Callers :
        Issue("logIn", user,
              [username |-> get(objectState, user, "username"),
               password |-> get(objectState, user, "password")])

\* the user object after _migrateId(response.objectId) and
\* _finishFetch(response)
LoggedIn(user, auth) ==
    [user EXCEPT !.id = AccountId(user),
                 !.attributes.sessionToken = NewSessionToken,
                 !.attributes.username = auth.username]

\* user._migrateId(serverId): the state kept under the local id moves to
\* the server-assigned id
MigrateId(table, from, to) ==
    IF from = to \/ from \notin DOMAIN table
    THEN table
    ELSE [i \in (DOMAIN table \ {from}) \cup {to} |->
            IF i = to THEN table[from] ELSE table[i]]

\* a logIn that drops every pending operation of the top set
ClearCredentials_ClearsAll(table, identity) ==
    LET state == Initialized(table, identity)[identity]
    IN  Put(table, identity,
            [state EXCEPT !.pendingOps[Len(state.pendingOps)] = NoAttributes])

\* the two ObjectState.setPendingOp(className, id, attr, undefined) of logIn
ClearCredentials(table, identity) ==
    reduce(reduce(table, setPendingOp(<<identity, "username", NoOp>>)).table,
           setPendingOp(<<identity, "password", NoOp>>)).table

\* the callback of logIn (ParseUser.js:876-890)
logInResolved ==
    \E i \in 1..Len(rest) :
        /\ rest[i].op = "logIn"
        /\ LET before == rest[i].user
               after == LoggedIn(before, rest[i].attrs)
               q == AliasWrites(storeQ, before, after)
           IN  /\ rest' = AliasAll(Without(rest, i), before, after)
               /\ users' = AliasHeld(users, before, after)
               /\ objectState' =
                      ClearCredentials(
                          MigrateId(objectState, IdentityOf(before),
                                    IdentityOf(after)),
                          IdentityOf(after))
               /\ IF ~canUseCurrentUser
                  THEN /\ ev' = UserEvent("logIn.resolved", after, after,
                                          FALSE, FALSE)
                       /\ action' = setPendingOp(<<IdentityOf(after),
                                                   "password", NoOp>>)
                       /\ currentUserCache' =
                              Alias(currentUserCache, before, after)
                       /\ storeQ' = q
                       /\ UNCHANGED <<disk, origin, net, loggedOut>>
                  ELSE SetCurrentOn(after, "logIn.resolved", q, disk,
                                    origin, FALSE)
        /\ UNCHANGED <<canUseCurrentUser, currentUserCacheMatchesDisk,
                       storageAsync, taskQ, applied, calls>>

\* the session tokens callers pass to become, and the user the server
\* sends for each
BecomeTokens == {"r:tok", "tok"}

\* the object become has made with new ParseUser() (ParseUser.js:895),
\* once _finishFetch has put the response into it
Became(token) ==
    LET account == CHOOSE user \in CallerUsers : getSessionToken(user) = token
    IN  User(NewRef, account.id, token, account.attributes.username)

\* ParseUser.become(sessionToken)
become ==
    \E token \in BecomeTokens :
        IF ~canUseCurrentUser
        THEN Fail("become", Null, [sessionToken |-> token], "NotMemorySafe")
        ELSE Issue("become", Null, [sessionToken |-> token])

\* the callback of become (ParseUser.js:899-903)
becomeResolved ==
    \E i \in 1..Len(rest) :
        /\ rest[i].op = "become"
        /\ rest' = Without(rest, i)
        /\ SetCurrent(Became(rest[i].attrs.sessionToken), "become.resolved",
                      FALSE)
        /\ HasRoom
        /\ users' = Keep(users, Became(rest[i].attrs.sessionToken))
        /\ UNCHANGED <<canUseCurrentUser, currentUserCacheMatchesDisk,
                       storageAsync, tables>>

\* user._upgradeToRevocableSession(): DefaultController
\* .upgradeToRevocableSession up to the request
upgradeToRevocableSession ==
    \E user \in Callers :
        IF ~Truthy(getSessionToken(user))
        THEN Fail("upgradeToRevocableSession", user, NoAttrs,
                  "SESSION_MISSING")
        ELSE Issue("upgradeToRevocableSession", user, NoAttrs)

\* ParseUser.enableRevocableSession() (ParseUser.js:676-686): the current
\* user is read, from Storage when the cache does not hold it, and asked to
\* upgrade its session in the same step. No operation of the user
\* controller reads the FORCE_REVOCABLE_SESSION setting the call leaves in
\* CoreManager
enableRevocableSession ==
    IF ~canUseCurrentUser
    THEN /\ ev' = UserEvent("enableRevocableSession", Null, Resolved, FALSE,
                            FALSE)
         /\ UNCHANGED <<canUseCurrentUser, currentUserCache,
                        currentUserCacheMatchesDisk, storageAsync, disk, origin,
                        storeQ, net, loggedOut, others>>
    ELSE LET r == currentUserResult(currentUserCache,
                                    currentUserCacheMatchesDisk, storageAsync,
                                    disk)
             op == "enableRevocableSession"
         IN  /\ IF r.set
                THEN currentUserCacheSet(r.cache)
                ELSE UNCHANGED <<currentUserCache, action>>
             /\ currentUserCacheMatchesDisk' = r.matchesDisk
             /\ Made(r.ret) => HasRoom
             /\ users' = Keep(users, r.ret)
             /\ IF r.ret.kind = "error"
                THEN /\ ev' = UserEvent(op, Null, r.ret, r.io, FALSE)
                     /\ UNCHANGED <<rest, calls>>
                ELSE IF r.ret = Null
                THEN /\ ev' = UserEvent(op, Null, Resolved, r.io, FALSE)
                     /\ UNCHANGED <<rest, calls>>
                ELSE IF ~Truthy(getSessionToken(r.ret))
                THEN /\ ev' = UserEvent(op, r.ret,
                                        Failure("SESSION_MISSING"), r.io,
                                        FALSE)
                     /\ UNCHANGED <<rest, calls>>
                ELSE /\ Len(rest) < MaxRequests
                     /\ calls < MaxCalls
                     /\ calls' = calls + 1
                     /\ rest' = Append(rest,
                             Request("upgradeToRevocableSession", r.ret,
                                     NoAttrs))
                     /\ ev' = UserEvent(op, r.ret, Pending, r.io, FALSE)
             /\ UNCHANGED <<canUseCurrentUser, storageAsync, disk, origin, storeQ,
                            net, loggedOut, objectState, taskQ, applied>>

\* the callback of upgradeToRevocableSession (ParseUser.js:957-965)
upgradeToRevocableSessionResolved ==
    \E i \in 1..Len(rest) :
        /\ rest[i].op = "upgradeToRevocableSession"
        /\ LET before == rest[i].user
               after == [before EXCEPT
                            !.attributes.sessionToken = NewSessionToken]
               r == currentResult(canUseCurrentUser,
                                  Alias(currentUserCache, before, after),
                                  currentUserCacheMatchesDisk, storageAsync,
                                  disk)
               op == "upgradeToRevocableSession.resolved"
               q == AliasWrites(storeQ, before, after)
           IN  /\ rest' = AliasAll(Without(rest, i), before, after)
               /\ currentUserCacheMatchesDisk' = r.matchesDisk
               /\ IF r.ret.kind = "error"
                  THEN /\ ev' = UserEvent(op, after, r.ret, r.io, FALSE)
                       /\ ReadInto(r, before, after)
                       /\ storeQ' = q
                       /\ UNCHANGED <<disk, origin, net, loggedOut>>
                  ELSE IF isCurrent(after, r.ret)
                  THEN SetCurrentOn(after, op, q, disk, origin, r.io)
                  ELSE /\ ev' = UserEvent(op, after, after, r.io, FALSE)
                       /\ ReadInto(r, before, after)
                       /\ storeQ' = q
                       /\ UNCHANGED <<disk, origin, net, loggedOut>>
               /\ Made(currentUserCache') => HasRoom
               /\ users' = Keep(AliasHeld(users, before, after),
                                currentUserCache')
        /\ UNCHANGED <<canUseCurrentUser, storageAsync, tables>>

\* a failed request after which the pending credentials are cleared
RestReject_ClearsCredentials ==
    \E i \in 1..Len(rest) :
        /\ rest' = Without(rest, i)
        /\ objectState' = ClearCredentials(objectState,
                                           IdentityOf(rest[i].user))
        /\ ev' = UserEvent(rest[i].op \o ".rejected", rest[i].user,
                           Failure("RequestError"), FALSE, FALSE)
        /\ UNCHANGED <<canUseCurrentUser, currentUserCache,
                       currentUserCacheMatchesDisk, storageAsync, disk, origin,
                       storeQ, net, loggedOut, action, taskQ, applied, calls,
                       users>>

\* a request fails: the promise of the call is rejected, no callback runs
RestReject ==
    \E i \in 1..Len(rest) :
        /\ rest' = Without(rest, i)
        /\ ev' = UserEvent(rest[i].op \o ".rejected", rest[i].user,
                           Failure("RequestError"), FALSE, FALSE)
        /\ UNCHANGED <<canUseCurrentUser, currentUserCache,
                       currentUserCacheMatchesDisk, storageAsync, disk, origin,
                       storeQ, net, loggedOut, objectState, action, taskQ,
                       applied, calls, users>>

\* what an earlier run may have left in Storage
InitUser ==
    /\ Init
    /\ disk \in {Null, UserOnDisk(User("u1", "id1", "r:tok", "alice"))}

NextUser ==
    \/ save
    \/ fetch
    \/ saveResolved
    \/ fetchResolved
    \/ signUp
    \/ linkWith
    \/ logIn
    \/ become
    \/ upgradeToRevocableSession
    \/ enableRevocableSession
    \/ signUpResolved
    \/ linkWithResolved
    \/ logInResolved
    \/ becomeResolved
    \/ upgradeToRevocableSessionResolved
    \/ RestReject
    \/ current
    \/ currentAsync
    \/ logOut
    \/ RequestResolve
    \/ RequestReject
    \/ enableUnsafeCurrentUser
    \/ disableUnsafeCurrentUser
    \/ StoreResolve
    \/ StoreReject

SpecUser == InitUser /\ [][NextUser]_vars

\* save and fetch of a user next to the reads of the current user
NextSave ==
    \/ save
    \/ fetch
    \/ saveResolved
    \/ fetchResolved
    \/ RestReject
    \/ current
    \/ currentAsync
    \/ enableUnsafeCurrentUser
    \/ disableUnsafeCurrentUser
    \/ StoreResolve
    \/ StoreReject

SpecSave == InitUser /\ [][NextSave]_vars

\* a step in which the callback of save or of fetch ran
SaveOrFetchDone == ev'.op \in {"save.resolved", "fetch.resolved"}

\* the same requests are in flight at Storage, for the same user objects
SameRequests(after, before) ==
    /\ Len(after) = Len(before)
    /\ \A i \in 1..Len(before) :
           /\ SameObject(after[i].user, before[i].user)
           /\ [after[i] EXCEPT !.user = Null] =
                  [before[i] EXCEPT !.user = Null]

\* what the step did to the persistent entry, told by ev'.wrote: it handed
\* the snapshot of the user to Storage, or it left Storage alone
WroteAsTold ==
    IF ev'.wrote
    THEN IF storageAsync
         THEN /\ Len(storeQ') = Len(storeQ) + 1
              /\ storeQ'[Len(storeQ')].op = "setItem"
              /\ storeQ'[Len(storeQ')].data = UserOnDisk(ev'.user)
              /\ disk' = disk
         ELSE disk' = UserOnDisk(ev'.user) /\ SameRequests(storeQ', storeQ)
    ELSE disk' = disk /\ SameRequests(storeQ', storeQ)

\* C17 as stated: the entry is rewritten exactly when the memory cache
\* holds a user with the id of U while current-user use is enabled, and the
\* memory cache and cacheMatchesDisk stay as they were
C17_WritesIffCurrent ==
    [][SaveOrFetchDone =>
        /\ WroteAsTold
        /\ ev'.wrote <=> /\ canUseCurrentUser
                         /\ currentUserCache'.kind = "user"
                         /\ currentUserCache'.id = ev'.user.id
        /\ SameObject(currentUserCache', currentUserCache)
        /\ currentUserCacheMatchesDisk' = currentUserCacheMatchesDisk]_vars

\* C17 (amended): the entry is rewritten exactly when ParseUser.current(),
\* called when the save or fetch completes, returns a user with the id of U;
\* that call is a read of the current user: with the cache unknown it loads
\* the cache on a synchronous store and fails on an asynchronous one
C17_WritesIffCurrentRead ==
    [][SaveOrFetchDone =>
        LET U == ev'.user
            unknown == currentUserCache = Null /\ ~currentUserCacheMatchesDisk
        IN  /\ WroteAsTold
            /\ ~canUseCurrentUser =>
                   /\ ~ev'.wrote /\ ev'.ret = U
                   /\ SameObject(currentUserCache', currentUserCache)
                   /\ currentUserCacheMatchesDisk' = currentUserCacheMatchesDisk
            /\ (canUseCurrentUser /\ ~unknown) =>
                   /\ ev'.wrote <=> /\ currentUserCache'.kind = "user"
                                    /\ currentUserCache'.id = U.id
                   /\ ~ev'.io
                   /\ SameObject(currentUserCache', currentUserCache)
                   /\ currentUserCacheMatchesDisk' = currentUserCacheMatchesDisk
            /\ (canUseCurrentUser /\ unknown /\ storageAsync) =>
                   /\ ~ev'.wrote /\ ev'.ret = Failure("AsyncStorage")
                   /\ currentUserCache' = Null
                   /\ ~currentUserCacheMatchesDisk'
            /\ (canUseCurrentUser /\ unknown /\ ~storageAsync) =>
                   /\ ev'.io
                   /\ currentUserCacheMatchesDisk'
                   /\ currentUserCache' = Loaded(disk, Null).cache
                   /\ ev'.wrote <=> /\ currentUserCache'.kind = "user"
                                    /\ currentUserCache'.id = U.id]_vars

\* a save completed with the cache unknown on a synchronous store: the read
\* loaded the stored user, which has the id of U, and the entry was rewritten
C17_Witness ==
    /\ ev.op = "save.resolved"
    /\ ev.wrote /\ ev.io
    /\ ~storageAsync
    /\ currentUserCacheMatchesDisk
    /\ currentUserCache.kind = "user"
    /\ currentUserCache \notin CallerUsers
    /\ currentUserCache.ref \notin { user.ref : user \in CallerUsers }
    /\ currentUserCache.id = ev.user.id
    /\ disk = UserOnDisk(ev.user)

\* the sign-up and log-in of a new user that callers have edited
NextLogIn ==
    \/ set
    \/ signUp
    \/ logIn
    \/ signUpResolved
    \/ logInResolved
    \/ RestReject
    \/ current
    \/ enableUnsafeCurrentUser
    \/ disableUnsafeCurrentUser
    \/ StoreResolve
    \/ StoreReject

SpecLogIn == InitUser /\ [][NextLogIn]_vars

\* the step left the memory cache, cacheMatchesDisk and the persistent
\* store as they were
CacheFrame ==
    /\ SameObject(currentUserCache', currentUserCache)
    /\ currentUserCacheMatchesDisk' = currentUserCacheMatchesDisk
    /\ disk' = disk
    /\ SameRequests(storeQ', storeQ)

\* C18: while canUseCurrentUser is false, current() and currentAsync()
\* return null without reading Storage, become and logOut fail, and the
\* callbacks of signUp, logIn, linkWith, save, fetch and
\* upgradeToRevocableSession succeed and leave the cache, cacheMatchesDisk
\* and the store alone
C18_Disabled ==
    [][(~canUseCurrentUser /\ ~canUseCurrentUser') =>
        /\ ev'.op \in {"current", "currentAsync"} =>
               ev'.ret = Null /\ ~ev'.io /\ CacheFrame
        /\ ev'.op \in {"become", "logOut"} =>
               ev'.ret.kind = "error" /\ CacheFrame /\ rest' = rest
        /\ ev'.op \in {"signUp.resolved", "logIn.resolved",
                       "linkWith.resolved", "save.resolved",
                       "fetch.resolved",
                       "upgradeToRevocableSession.resolved"} =>
               ev'.ret = ev'.user /\ CacheFrame]_vars

\* the cache holds a user, current-user use is disabled and a logIn of
\* another user has succeeded
C18_Witness ==
    /\ ~canUseCurrentUser
    /\ ev.op = "logIn.resolved"
    /\ ev.ret = ev.user
    /\ currentUserCache.kind = "user"
    /\ currentUserCache.id # ev.user.id

\* C19: a signUp whose username, or whose password, is empty or missing
\* in both attrs and the user fails with OTHER_CAUSE, issues no request and
\* leaves the cache, cacheMatchesDisk and the store alone
C19_SignUpValidation ==
    [][ev'.op = "signUp" =>
        LET missing(attr) ==
                /\ ~Truthy(ev'.attrs[attr])
                /\ ~Truthy(get(objectState, ev'.user, attr))
        IN  IF missing("username") \/ missing("password")
            THEN /\ ev'.ret = Failure("OTHER_CAUSE")
                 /\ rest' = rest /\ calls' = calls
                 /\ CacheFrame
                 /\ currentUserCache' = currentUserCache
            ELSE /\ ev'.ret = Pending
                 /\ Len(rest') = Len(rest) + 1]_vars

\* a signUp with a username and an empty password has failed
C19_Witness ==
    /\ ev.op = "signUp"
    /\ ev.ret = Failure("OTHER_CAUSE")
    /\ Truthy(get(objectState, ev.user, "username"))
    /\ ev.attrs.password = ""
    /\ ~Truthy(get(objectState, ev.user, "password"))
    /\ rest = <<>> /\ calls = 0

\* C20: when the request of logIn fails the caller gets the error, the
\* cache, cacheMatchesDisk, the store and the Object State stay as they
\* were, and the user keeps the id it had
C20_LogInFailure ==
    [][ev'.op = "logIn.rejected" =>
        /\ ev'.ret.kind = "error"
        /\ CacheFrame
        /\ currentUserCache' = currentUserCache
        /\ \E i \in 1..Len(rest) :
               rest[i].op = "logIn" /\ rest[i].user = ev'.user
        /\ \A attr \in {"username", "password"} :
               get(objectState', ev'.user, attr)
                   = get(objectState, ev'.user, attr)
        /\ objectState' = objectState]_vars

\* the logIn of a new user with pending username and password has failed
C20_Witness ==
    /\ ev.op = "logIn.rejected"
    /\ ev.user.id = Undefined
    /\ {"username", "password"}
           \subseteq DOMAIN getPendingOps(objectState, IdentityOf(ev.user))[1]

\* the attributes of a pending set other than the credentials
WithoutCredentials(ops) ==
    [a \in DOMAIN ops \ {"username", "password"} |-> ops[a]]

\* C21: a successful logIn migrates the user to the server-assigned id,
\* clears 'username' and 'password' in the top pending set of that identity
\* and nothing else, then makes the user current when current-user use is
\* enabled; its result resolves only once setCurrentUser has written the user
C21_LogInSuccess ==
    [][/\ ev'.op = "logIn.resolved" =>
            \E i \in 1..Len(rest) :
                LET before == rest[i].user
                    U == ev'.user
                    old == IF IdentityOf(before) \in DOMAIN objectState
                           THEN getPendingOps(objectState, IdentityOf(before))
                           ELSE getPendingOps(objectState, IdentityOf(U))
                    new == getPendingOps(objectState', IdentityOf(U))
                IN  /\ rest[i].op = "logIn" /\ before.ref = U.ref
                    /\ U.id = AccountId(before)
                    /\ IdentityOf(before) # IdentityOf(U) =>
                           IdentityOf(before) \notin DOMAIN objectState'
                    /\ Len(new) = Len(old)
                    /\ \A k \in 1..(Len(old) - 1) : new[k] = old[k]
                    /\ new[Len(new)] = WithoutCredentials(old[Len(old)])
                    /\ IF ~canUseCurrentUser
                       THEN ev'.ret = U /\ CacheFrame
                       ELSE /\ currentUserCache' = U
                            /\ IF storageAsync
                               THEN /\ ev'.ret = Pending
                                    /\ disk' = disk
                                    /\ storeQ'[Len(storeQ')].op = "setItem"
                                    /\ storeQ'[Len(storeQ')].data = UserOnDisk(U)
                               ELSE /\ ev'.ret = U
                                    /\ disk' = UserOnDisk(U)
       /\ ev'.op = "setCurrentUser.settled" =>
            \/ ev'.ret.kind = "error" /\ disk' = disk
            \/ /\ ev'.ret = ev'.user
               /\ storeQ # <<>>
               /\ disk' = Head(storeQ).data]_vars

\* an edited new user has logged in and is current: it has the id of the
\* server and its pending nickname, but no pending credentials
C21_Witness ==
    /\ ev.op = "logIn.resolved"
    /\ canUseCurrentUser
    /\ currentUserCache = ev.user
    /\ ev.user.id = ServerId(ev.user)
    /\ DOMAIN getPendingOps(objectState, IdentityOf(ev.user))[1] = {"nickname"}

\* the steps of a logOut: the call, the read of the stored user it waits
\* for, and the removal of the stored user
LogOutSteps == {"logOut", "logOut.read", "logOut.removed"}

\* the step found a current user whose session token is revocable
FoundRevocable(e) ==
    /\ e.user # Null
    /\ Truthy(getSessionToken(e.user))
    /\ isRevocableSession(getSessionToken(e.user))

\* the step is the one in which Storage has removed the stored user
RemovedNow ==
    /\ ev'.ret.kind # "error"
    /\ \/ ev'.op = "logOut.removed" /\ Head(storeQ).op = "removeItem"
       \/ ev'.op \in {"logOut", "logOut.read"} /\ ~storageAsync
                                               /\ canUseCurrentUser

\* C22: a 'logout' request is issued only in the step in which Storage has
\* removed the stored user, only for a current user with a revocable session
\* token, and it carries the token that user had when logOut read it; a
\* logOut that finds no user, or a token that is not revocable, or whose
\* removal fails, issues none
C22_LogoutRequest ==
    [][/\ Len(net') > Len(net) =>
            /\ Len(net') = Len(net) + 1
            /\ RemovedNow
            /\ disk' = Null
            /\ FoundRevocable(ev')
            /\ net'[Len(net')].sessionToken = getSessionToken(ev'.user)
            /\ net'[Len(net')].path = "logout"
       /\ (ev'.op \in LogOutSteps /\ ~FoundRevocable(ev')) =>
            Len(net') = Len(net)
       /\ (ev'.op \in LogOutSteps /\ ev'.ret.kind = "error") =>
            Len(net') = Len(net)
       /\ (RemovedNow /\ FoundRevocable(ev')) =>
            Len(net') = Len(net) + 1]_vars

\* an asynchronous Storage has removed the stored user and the 'logout'
\* request with the token of that user is in flight
C22_Witness ==
    /\ storageAsync
    /\ ev.op = "logOut.removed"
    /\ ev.ret = Pending
    /\ disk = Null
    /\ Len(net) = 1
    /\ net[1].sessionToken = getSessionToken(ev.user)

\* the cache is in the unknown state
Unknown == currentUserCache = Null /\ ~currentUserCacheMatchesDisk

\* C24: a read that finds in the store a snapshot that cannot be parsed
\* fails with the error of the parser: it returns neither a user nor absent
C24_MalformedPropagates ==
    [][(ReadDelivered(ev') /\ disk # Null /\ ~CanParse(disk))
          => /\ ev'.ret = Failure("SyntaxError")
             /\ currentUserCache' = currentUserCache]_vars

\* an asynchronous read has been rejected with the error of the parser
C24_Witness ==
    /\ ev.op = "currentUserAsync.settled"
    /\ ev.ret = Failure("SyntaxError")
    /\ disk = Malformed

\* the read has failed on the stored snapshot or on the store itself
ReadFailed(e) ==
    /\ e.op \in {"currentUser", "currentUserAsync", "currentUserAsync.settled"}
    /\ e.ret \in {Failure("SyntaxError"), Failure("StorageError")}

\* C25 (as claimed): a read in the unknown state that fails on a malformed
\* snapshot, or on a failed read of an asynchronous store, leaves the cache
\* unknown: the memory cache empty and cacheMatchesDisk false
C25_FailedReadStaysUnknown ==
    [][(Unknown /\ ReadFailed(ev'))
          => (currentUserCache' = Null /\ ~currentUserCacheMatchesDisk')]_vars

\* C26: on a synchronous store currentUserAsync() does what currentUser()
\* does from the same memory cache, cacheMatchesDisk and stored item: it
\* returns the same user, absent or error, and leaves the same memory cache,
\* cacheMatchesDisk and store
C26_ReadPathsAgree ==
    [][(~storageAsync /\ ev'.op = "currentUserAsync") =>
        LET r == currentUserResult(currentUserCache,
                                   currentUserCacheMatchesDisk, storageAsync,
                                   disk)
        IN  /\ ev'.ret = r.ret
            /\ ev'.io = r.io
            /\ currentUserCache' = r.cache
            /\ currentUserCacheMatchesDisk' = r.matchesDisk
            /\ disk' = disk
            /\ storeQ' = storeQ]_vars

\* on a synchronous store currentUserAsync() has loaded the stored user from
\* the unknown state
C26_Witness ==
    /\ ~storageAsync
    /\ ev.op = "currentUserAsync"
    /\ ev.io
    /\ ev.ret.kind = "user"
    /\ currentUserCache = ev.ret
    /\ currentUserCacheMatchesDisk

\* the operations on the current user next to _setCurrentUserCache
NextCache ==
    \/ current
    \/ currentAsync
    \/ \E user \in Callers : setCurrentUser(user)
    \/ \E user \in Callers : _setCurrentUserCache(user)
    \/ logOut
    \/ _clearCache
    \/ StoreResolve
    \/ StoreReject
    \/ RequestResolve
    \/ RequestReject

\* what an earlier run may have left in Storage: nothing, a string that is
\* not JSON, or the snapshot of a user
InitCache ==
    /\ Init
    /\ disk \in {Null, Malformed,
                 UserOnDisk(User("u1", "id1", "r:tok", "alice"))}

SpecCache == InitCache /\ [][NextCache]_vars

\* C23: the memory cache changes only through currentUserCache.set, which
\* dispatches a user action carrying the value it assigns: the value of the
\* user action dispatched last is the memory cache, which is empty while
\* none was dispatched, and setCurrentUser, _clearCache and
\* _setCurrentUserCache dispatch one each time
C23_CacheIsLastUserAction ==
    /\ [](IF action = InitAction
          THEN currentUserCache = Null
          ELSE action = UserSet(currentUserCache))
    /\ [][/\ currentUserCache' # currentUserCache =>
                action' = UserSet(currentUserCache')
          /\ ev'.op \in {"setCurrentUser", "_clearCache",
                         "_setCurrentUserCache"} =>
                action' = UserSet(currentUserCache')]_vars

\* a read on an asynchronous store has loaded the stored user, and the
\* user action dispatched last carries that user
C23_Witness ==
    /\ ev.op = "currentUserAsync.settled"
    /\ currentUserCache.kind = "user"
    /\ currentUserCache \notin CallerUsers
    /\ action = UserSet(currentUserCache)

====
